---------------------------- MODULE Spec2Model ----------------------------
(***************************************************************************)
(* Model of the Tcl debugger front-end of src/tcl_debugger.cpp: the        *)
(* variable tracker (MemoryAwareVariableTracker), the breakpoint manager   *)
(* (EnhancedBreakpointManager), the execution controller                   *)
(* (ScriptExecutionController) and the console commands (DebugConsole).    *)
(*                                                                         *)
(* A std::string is a sequence of one-character strings, so that find,     *)
(* substr, the regular expressions and comparison are computed as the code *)
(* computes them; scope and file names, the execution mode and the type    *)
(* tags, which the code only copies and compares, stay strings. A std::map *)
(* is a function whose domain is the set of keys present. The random       *)
(* simulatedAddress, the simulated memory bytes with their size and hex    *)
(* dump, the never-set array view, the display-only watch list and         *)
(* monitoring flag carry no state the program reads back and are left      *)
(* out, and so is the terminal output, but for the outcome that popScope,  *)
(* removeBreakpoint and toggleBreakpoint print.                            *)
(***************************************************************************)
EXTENDS Integers, Sequences, FiniteSets, TLC

VARIABLES
    globalVariables,         \* MemoryAwareVariableTracker::globalVariables
    scopeStack,              \* MemoryAwareVariableTracker::scopeStack
    variableChangeCallback,  \* the installed callback ("none" when unset)
    events,                  \* the callback's invocations, in order
    breakpoints,             \* EnhancedBreakpointManager::breakpoints
    controller,              \* the ScriptExecutionController's fields
    call                     \* the last call made on the engine and its result

storeVars == <<globalVariables, scopeStack, variableChangeCallback, events>>
vars      == <<globalVariables, scopeStack, variableChangeCallback, events,
               breakpoints, controller, call>>

----------------------------------------------------------------------------
(* Strings *)

EmptyStr == <<>>

\* std::string::find(c): the index (from 1) of the first c in s, 0 for npos
RECURSIVE FindFrom(_, _, _)
FindFrom(s, c, i) ==
    IF i > Len(s) THEN 0
    ELSE IF s[i] = c THEN i
    ELSE FindFrom(s, c, i + 1)

Find(s, c) == FindFrom(s, c, 1)

\* Whether the literal lit stands in s at index i
LitAt(s, i, lit) ==
    /\ i >= 1
    /\ i + Len(lit) - 1 <= Len(s)
    /\ SubSeq(s, i, i + Len(lit) - 1) = lit

\* std::string::find(lit) != npos
Contains(s, lit) == \E i \in 1..Len(s) : LitAt(s, i, lit)

Letters ==
    { "a", "b", "c", "d", "e", "f", "g", "h", "i", "j", "k", "l", "m",
      "n", "o", "p", "q", "r", "s", "t", "u", "v", "w", "x", "y", "z",
      "A", "B", "C", "D", "E", "F", "G", "H", "I", "J", "K", "L", "M",
      "N", "O", "P", "Q", "R", "S", "T", "U", "V", "W", "X", "Y", "Z" }

Digits == {"0", "1", "2", "3", "4", "5", "6", "7", "8", "9"}

\* isspace in the "C" locale (the vertical tab has no TLA+ literal)
WhiteSpace == {" ", "\t", "\n", "\r", "\f"}

\* The first index at or after i that holds no white space (Len(s) + 1 when
\* there is none): where
\* operator>> and a greedy \s* started at i stop skipping
RECURSIVE SkipSpaces(_, _)
SkipSpaces(s, i) ==
    IF i > Len(s) THEN i
    ELSE IF s[i] \in WhiteSpace THEN SkipSpaces(s, i + 1)
    ELSE i

----------------------------------------------------------------------------
(* std::map helpers *)
EmptyMap == [k \in {} |-> 0]

MapPut(m, k, v) == [x \in (DOMAIN m) \cup {k} |-> IF x = k THEN v ELSE m[x]]

\* The characters of identifiers in the order of their codes
CodeOrder ==
    <<"0", "1", "2", "3", "4", "5", "6", "7", "8", "9",
      "A", "B", "C", "D", "E", "F", "G", "H", "I", "J", "K", "L", "M",
      "N", "O", "P", "Q", "R", "S", "T", "U", "V", "W", "X", "Y", "Z", "_",
      "a", "b", "c", "d", "e", "f", "g", "h", "i", "j", "k", "l", "m",
      "n", "o", "p", "q", "r", "s", "t", "u", "v", "w", "x", "y", "z">>

CharCode(ch) == CHOOSE k \in 1..Len(CodeOrder) : CodeOrder[k] = ch

\* std::less<std::string>, the order of the keys of a std::map<std::string, ...>
RECURSIVE StringLess(_, _)
StringLess(a, b) ==
    IF b = <<>> THEN FALSE
    ELSE IF a = <<>> THEN TRUE
    ELSE IF Head(a) = Head(b) THEN StringLess(Tail(a), Tail(b))
    ELSE CharCode(Head(a)) < CharCode(Head(b))

\* The keys of a std::map<std::string, ...> in iteration order
RECURSIVE KeysInOrder(_)
KeysInOrder(S) ==
    IF S = {} THEN <<>>
    ELSE LET m == CHOOSE x \in S : \A y \in S \ {x} : StringLess(x, y)
         IN  <<m>> \o KeysInOrder(S \ {m})

----------------------------------------------------------------------------
(* The classifier of EnhancedVariableInfo *)

LowerCase ==
    <<"a", "b", "c", "d", "e", "f", "g", "h", "i", "j", "k", "l", "m",
      "n", "o", "p", "q", "r", "s", "t", "u", "v", "w", "x", "y", "z">>

UpperCase ==
    <<"A", "B", "C", "D", "E", "F", "G", "H", "I", "J", "K", "L", "M",
      "N", "O", "P", "Q", "R", "S", "T", "U", "V", "W", "X", "Y", "Z">>

ToLower(ch) ==
    IF \E k \in 1..Len(UpperCase) : UpperCase[k] = ch
    THEN LowerCase[CHOOSE k \in 1..Len(UpperCase) : UpperCase[k] = ch]
    ELSE ch

HexDigitSeq ==
    <<"0", "1", "2", "3", "4", "5", "6", "7", "8", "9", "a", "b", "c", "d", "e", "f">>

HexDigits == {HexDigitSeq[k] : k \in 1..Len(HexDigitSeq)} \cup {"A", "B", "C", "D", "E", "F"}

\* The value of a decimal or hexadecimal digit
HexVal(ch) == (CHOOSE k \in 1..Len(HexDigitSeq) : HexDigitSeq[k] = ToLower(ch)) - 1

\* The character of s at index i, "" past its ends
CharAt(s, i) == IF i >= 1 /\ i <= Len(s) THEN s[i] ELSE ""

\* The first index at or after i whose character is not in class
RECURSIVE SkipIn(_, _, _)
SkipIn(s, i, class) ==
    IF i <= Len(s) /\ s[i] \in class THEN SkipIn(s, i + 1, class) ELSE i

\* Whether the lower-case literal lit stands in s at index i in any case
LitAtNoCase(s, i, lit) ==
    /\ i >= 1
    /\ i + Len(lit) - 1 <= Len(s)
    /\ \A k \in 1..Len(lit) : ToLower(s[i + k - 1]) = lit[k]

RECURSIVE StripZeros(_)
StripZeros(d) ==
    IF d # <<>> /\ Head(d) = "0" THEN StripZeros(Tail(d)) ELSE d

RECURSIVE StripTrailingZeros(_)
StripTrailingZeros(d) ==
    IF d # <<>> /\ d[Len(d)] = "0"
    THEN StripTrailingZeros(SubSeq(d, 1, Len(d) - 1)) ELSE d

\* The number a string of decimal digits denotes; beyond five digits it is
\* 99999, far past every exponent that decides a range error
RECURSIVE DecValue(_)
DecValue(d) ==
    LET z == StripZeros(d)
    IN  IF z = <<>> THEN 0
        ELSE IF Len(z) > 5 THEN 99999
        ELSE DecValue(SubSeq(z, 1, Len(z) - 1)) * 10 + HexVal(z[Len(z)])

\* The exponent part [eE][+-]?[0-9]+ (marks = {e, E}; {p, P} for a
\* hexadecimal number) of s at index i: its value, 0 when there is none
ExponentAt(s, i, marks) ==
    IF CharAt(s, i) \notin marks THEN 0
    ELSE LET j == IF CharAt(s, i + 1) \in {"+", "-"} THEN i + 2 ELSE i + 1
             k == SkipIn(s, j, Digits)
             v == DecValue(SubSeq(s, j, k - 1))
         IN  IF k = j THEN 0
             ELSE IF CharAt(s, i + 1) = "-" THEN 0 - v ELSE v

\* Whether 0.a > 0.b for digit strings a and b
RECURSIVE DigitsGreater(_, _)
DigitsGreater(a, b) ==
    IF a = <<>> THEN FALSE
    ELSE IF b = <<>> THEN \E i \in 1..Len(a) : a[i] # "0"
    ELSE IF Head(a) # Head(b) THEN HexVal(Head(a)) > HexVal(Head(b))
    ELSE DigitsGreater(Tail(a), Tail(b))

\* The digits of the least d.ddd * 10^308 that rounds past DBL_MAX, of
\* which DoubleMaxDigits is a prefix, and of the least d.ddd * 10^-308 that
\* rounds to a normal double, which DoubleTinyDigits is cut above
DoubleMaxDigits ==
    <<"1", "7", "9", "7", "6", "9", "3", "1", "3", "4", "8", "6", "2", "3", "1", "5", "8", "0", "7", "9", "3", "7", "2", "8", "9", "7", "1", "4", "0", "5", "3">>

DoubleTinyDigits ==
    <<"2", "2", "2", "5", "0", "7", "3", "8", "5", "8", "5", "0", "7", "2", "0", "1", "2", "5", "9", "5", "7", "3", "8", "2", "1", "2", "5", "7", "0", "2", "1">>

\* Whether strtod reports ERANGE for the decimal number int.frac * 10^exp:
\* the value is d.ddd * 10^sci and overflows a double or is a nonzero
\* subnormal (which no decimal fraction is exactly).  Decided by the digits
\* for mantissas shorter than the two thresholds above.
DecimalRangeError(int, frac, exp) ==
    LET m   == StripZeros(int \o frac)
        z   == Len(int) + Len(frac) - Len(m)
        sci == Len(int) - 1 - z + exp
    IN  /\ m # <<>>
        /\ \/ sci > 308
           \/ sci = 308 /\ DigitsGreater(m, DoubleMaxDigits)
           \/ sci < 0 - 308
           \/ sci = 0 - 308 /\ DigitsGreater(DoubleTinyDigits, m)

BitLen(v) == IF v >= 8 THEN 4 ELSE IF v >= 4 THEN 3 ELSE IF v >= 2 THEN 2 ELSE 1

TrailingZeroBits(v) ==
    IF v % 2 = 1 THEN 0 ELSE IF v % 4 = 2 THEN 1 ELSE IF v % 8 = 4 THEN 2 ELSE 3

\* Whether strtod reports ERANGE for the hexadecimal number
\* 0x int.frac * 2^exp: its highest bit is worth 2^high and its lowest
\* 2^low; it overflows from 2^1024 and underflows when it is below 2^-1022
\* and has bits below 2^-1074.  Exact for mantissas of at most 13 digits,
\* which a double holds without rounding.
HexRangeError(int, frac, exp) ==
    LET m    == StripZeros(int \o frac)
        z    == Len(int) + Len(frac) - Len(m)
        m2   == StripTrailingZeros(m)
        high == 4 * (Len(int) - 1 - z) + BitLen(HexVal(Head(m))) - 1 + exp
        low  == 4 * (Len(int) - z - Len(m2))
                  + TrailingZeroBits(HexVal(m2[Len(m2)])) + exp
    IN  /\ m # <<>>
        /\ \/ high > 1023
           \/ high < 0 - 1022 /\ low < 0 - 1074

\* std::stod(val) returns rather than throws: after white space and a sign
\* stands inf or nan, a hexadecimal number or a decimal number (whatever
\* follows it), and strtod reports no range error
StodConverts(val) ==
    LET i == SkipSpaces(val, 1)
        j == IF CharAt(val, i) \in {"+", "-"} THEN i + 1 ELSE i
    IN  IF LitAtNoCase(val, j, <<"i", "n", "f">>) \/ LitAtNoCase(val, j, <<"n", "a", "n">>)
        THEN TRUE
        ELSE IF /\ CharAt(val, j) = "0"
                /\ CharAt(val, j + 1) \in {"x", "X"}
                /\ \/ CharAt(val, j + 2) \in HexDigits
                   \/ CharAt(val, j + 2) = "." /\ CharAt(val, j + 3) \in HexDigits
        THEN LET a == j + 2
                 b == SkipIn(val, a, HexDigits)
                 c == IF CharAt(val, b) = "." THEN SkipIn(val, b + 1, HexDigits) ELSE b
             IN  ~ HexRangeError(SubSeq(val, a, b - 1),
                                 IF c > b THEN SubSeq(val, b + 1, c - 1) ELSE <<>>,
                                 ExponentAt(val, c, {"p", "P"}))
        ELSE LET b == SkipIn(val, j, Digits)
                 c == IF CharAt(val, b) = "." THEN SkipIn(val, b + 1, Digits) ELSE b
                 int  == SubSeq(val, j, b - 1)
                 frac == IF c > b THEN SubSeq(val, b + 1, c - 1) ELSE <<>>
             IN  /\ Len(int) + Len(frac) >= 1
                 /\ ~ DecimalRangeError(int, frac, ExponentAt(val, c, {"e", "E"}))

\* EnhancedVariableInfo::isNumericValue
IsNumericValue(val) == val # EmptyStr /\ StodConverts(val)

\* What a loop of iss >> element reads from s starting at index i
RECURSIVE TokensFrom(_, _)
TokensFrom(s, i) ==
    LET j == SkipSpaces(s, i)
        k == SkipIn(s, j, {s[n] : n \in 1..Len(s)} \ WhiteSpace)
    IN  IF j > Len(s) THEN <<>>
        ELSE <<SubSeq(s, j, k - 1)>> \o TokensFrom(s, k)

Tokens(s) == TokensFrom(s, 1)

\* The value without one enclosing pair of braces
StripBraces(val) ==
    IF val # EmptyStr /\ Head(val) = "{" /\ val[Len(val)] = "}"
    THEN SubSeq(val, 2, Len(val) - 1)
    ELSE val

Min(a, b) == IF a < b THEN a ELSE b

ListCountCap == 10
DictTokenCap == 20
DictSizeMax  == 20

\* EnhancedVariableInfo::isDictionaryValue: the loop stops pushing at
\* DictTokenCap elements
IsDictionaryValue(val) ==
    /\ val # EmptyStr
    /\ LET size == Min(Len(Tokens(StripBraces(val))), DictTokenCap)
       IN  size % 2 = 0 /\ size >= 2 /\ size <= DictSizeMax

\* EnhancedVariableInfo::isListValue: the loop stops counting at
\* ListCountCap elements
IsListValue(val) ==
    /\ val # EmptyStr
    /\ Min(Len(Tokens(StripBraces(val))), ListCountCap) > 1
    /\ ~ IsDictionaryValue(val)

\* EnhancedVariableInfo::parseList: the new listElements
ParseList(value) == Tokens(StripBraces(value))

\* The key-value loop of parseDictionary from element i on
RECURSIVE DictPairs(_, _, _)
DictPairs(elements, i, m) ==
    IF i + 1 > Len(elements) THEN m
    ELSE DictPairs(elements, i + 2, MapPut(m, elements[i], elements[i + 1]))

\* EnhancedVariableInfo::parseDictionary: the new dictElements
ParseDictionary(value) == DictPairs(Tokens(StripBraces(value)), 1, EmptyMap)

\* A slip: a value of blanks only is taken for the empty one.
AnalyzeTypeBlankIsEmpty(var) ==
    LET reset == [var EXCEPT !.isList = FALSE, !.isDictionary = FALSE,
                             !.isNumeric = FALSE]
    IN  IF Tokens(var.value) = <<>>
        THEN [reset EXCEPT !.type = "empty"]
        ELSE IF IsNumericValue(var.value)
        THEN [reset EXCEPT !.isNumeric = TRUE,
                           !.type = IF Find(var.value, ".") # 0
                                    THEN "float" ELSE "integer"]
        ELSE IF IsListValue(var.value)
        THEN [reset EXCEPT !.isList = TRUE, !.type = "list",
                           !.listElements = ParseList(var.value)]
        ELSE IF IsDictionaryValue(var.value)
        THEN [reset EXCEPT !.isDictionary = TRUE, !.type = "dictionary",
                           !.dictElements = ParseDictionary(var.value)]
        ELSE [reset EXCEPT !.type = "string"]

\* EnhancedVariableInfo::analyzeTypeAndStructure
AnalyzeTypeAndStructure(var) ==
    LET reset == [var EXCEPT !.isList = FALSE, !.isDictionary = FALSE,
                             !.isNumeric = FALSE]
    IN  IF var.isEmpty
        THEN [reset EXCEPT !.type = "empty"]
        ELSE IF IsNumericValue(var.value)
        THEN [reset EXCEPT !.isNumeric = TRUE,
                           !.type = IF Find(var.value, ".") # 0
                                    THEN "float" ELSE "integer"]
        ELSE IF IsListValue(var.value)
        THEN [reset EXCEPT !.isList = TRUE, !.type = "list",
                           !.listElements = ParseList(var.value)]
        ELSE IF IsDictionaryValue(var.value)
        THEN [reset EXCEPT !.isDictionary = TRUE, !.type = "dictionary",
                           !.dictElements = ParseDictionary(var.value)]
        ELSE [reset EXCEPT !.type = "string"]

----------------------------------------------------------------------------
(* EnhancedVariableInfo *)

HistoryCap == 10

\* EnhancedVariableInfo(n, v, s): the three-argument constructor
NewVariableInfo(n, v, s) ==
    AnalyzeTypeAndStructure(
        [ name             |-> n,
          value            |-> v,
          previousValue    |-> EmptyStr,
          type             |-> "",
          scope            |-> s,
          lastModifiedLine |-> 0,
          accessCount      |-> 0,
          isList           |-> FALSE,
          isDictionary     |-> FALSE,
          isNumeric        |-> FALSE,
          isEmpty          |-> (v = EmptyStr),
          listElements     |-> <<>>,
          dictElements     |-> EmptyMap,
          valueHistory     |-> <<>> ])

\* A slip: the history is seeded by every update, the no-op one included.
UpdateValueAlwaysPush(var, newValue, line) ==
    LET pushed == Append(var.valueHistory, var.value)
        hist   == IF Len(pushed) > HistoryCap THEN Tail(pushed) ELSE pushed
    IN  AnalyzeTypeAndStructure(
            [var EXCEPT !.valueHistory     = hist,
                        !.previousValue    = var.value,
                        !.value            = newValue,
                        !.lastModifiedLine = line,
                        !.accessCount      = @ + 1,
                        !.isEmpty          = (newValue = EmptyStr)])

\* A slip: the newest entry is evicted instead of the oldest.
UpdateValueEvictNewest(var, newValue, line) ==
    LET pushed == IF var.valueHistory # <<>> \/ var.value # newValue
                  THEN Append(var.valueHistory, var.value)
                  ELSE var.valueHistory
        hist   == IF Len(pushed) > HistoryCap
                  THEN SubSeq(pushed, 1, Len(pushed) - 1) ELSE pushed
    IN  AnalyzeTypeAndStructure(
            [var EXCEPT !.valueHistory     = hist,
                        !.previousValue    = var.value,
                        !.value            = newValue,
                        !.lastModifiedLine = line,
                        !.accessCount      = @ + 1,
                        !.isEmpty          = (newValue = EmptyStr)])

\* A slip: the value is replaced without being classified again.
UpdateValueStaleType(var, newValue, line) ==
    LET pushed == IF var.valueHistory # <<>> \/ var.value # newValue
                  THEN Append(var.valueHistory, var.value)
                  ELSE var.valueHistory
        hist   == IF Len(pushed) > HistoryCap THEN Tail(pushed) ELSE pushed
    IN  [var EXCEPT !.valueHistory     = hist,
                    !.previousValue    = var.value,
                    !.value            = newValue,
                    !.lastModifiedLine = line,
                    !.accessCount      = @ + 1,
                    !.isEmpty          = (newValue = EmptyStr)]

\* A slip: only a set that changes the value is recorded.
UpdateValueOnlyChanges(var, newValue, line) ==
    LET pushed == IF var.value # newValue
                  THEN Append(var.valueHistory, var.value)
                  ELSE var.valueHistory
        hist   == IF Len(pushed) > HistoryCap THEN Tail(pushed) ELSE pushed
    IN  AnalyzeTypeAndStructure(
            [var EXCEPT !.valueHistory     = hist,
                        !.previousValue    = var.value,
                        !.value            = newValue,
                        !.lastModifiedLine = line,
                        !.accessCount      = @ + 1,
                        !.isEmpty          = (newValue = EmptyStr)])

\* EnhancedVariableInfo::updateValue
UpdateValue(var, newValue, line) ==
    LET pushed == IF var.valueHistory # <<>> \/ var.value # newValue
                  THEN Append(var.valueHistory, var.value)
                  ELSE var.valueHistory
        hist   == IF Len(pushed) > HistoryCap THEN Tail(pushed) ELSE pushed
    IN  AnalyzeTypeAndStructure(
            [var EXCEPT !.valueHistory     = hist,
                        !.previousValue    = var.value,
                        !.value            = newValue,
                        !.lastModifiedLine = line,
                        !.accessCount      = @ + 1,
                        !.isEmpty          = (newValue = EmptyStr)])

----------------------------------------------------------------------------
(* MemoryAwareVariableTracker.  Its methods are functions of the tracker's *)
(* fields t = [globalVariables, scopeStack, events], so that a console     *)
(* command, which makes several calls, composes them.                      *)

Tracker ==
    [ globalVariables |-> globalVariables,
      scopeStack      |-> scopeStack,
      events          |-> events ]

NullRef == [kind |-> "null", frame |-> 0]

\* A slip: the lookup walks down the whole stack instead of the top frame.
GetVariableInfoAllFrames(t, name) ==
    LET frames == {i \in 1..Len(t.scopeStack) : name \in DOMAIN t.scopeStack[i]}
    IN  IF frames # {}
        THEN [kind |-> "local", frame |-> CHOOSE i \in frames : \A j \in frames : j <= i]
        ELSE IF name \in DOMAIN t.globalVariables
             THEN [kind |-> "global", frame |-> 0]
             ELSE NullRef

\* MemoryAwareVariableTracker::getVariableInfo: the place of the record the
\* returned pointer designates (a frame of the stack or the global map), or
\* nullptr.
GetVariableInfo(t, name) ==
    IF t.scopeStack # <<>> /\ name \in DOMAIN t.scopeStack[Len(t.scopeStack)]
    THEN [kind |-> "local", frame |-> Len(t.scopeStack)]
    ELSE IF name \in DOMAIN t.globalVariables
         THEN [kind |-> "global", frame |-> 0]
         ELSE NullRef

\* The record a non-null pointer designates.
Deref(t, ref, name) ==
    IF ref.kind = "local" THEN t.scopeStack[ref.frame][name]
    ELSE t.globalVariables[name]

\* A slip: the old value is read after the record was updated.
NotifyStaleOld(evs, cb, name, oldValue, value) ==
    IF cb # "none"
    THEN Append(evs, [listener |-> cb, name |-> name, old |-> value, new |-> value])
    ELSE evs

\* The callback invocation at the end of addVariable: the invocations so far.
Notify(evs, cb, name, oldValue, value) ==
    IF cb # "none"
    THEN Append(evs, [listener |-> cb, name |-> name, old |-> oldValue, new |-> value])
    ELSE evs

\* The tracker after a write through a non-null pointer: rec takes the
\* place of the record it designates
WriteThrough(t, ref, name, rec) ==
    IF ref.kind = "local"
    THEN [t EXCEPT !.scopeStack[ref.frame][name] = rec]
    ELSE [t EXCEPT !.globalVariables[name] = rec]

\* A slip: with no frame to take it, a local goes to the global map.
StoreNewFallsBackToGlobal(t, name, scope, var) ==
    IF scope = "global" \/ t.scopeStack = <<>>
    THEN [t EXCEPT !.globalVariables = MapPut(@, name, var)]
    ELSE [t EXCEPT !.scopeStack[Len(t.scopeStack)] = MapPut(@, name, var)]

\* The new-variable branch of addVariable: var goes to the global map when
\* the scope is "global", else to the top frame when there is one, else
\* nowhere
StoreNew(t, name, scope, var) ==
    IF scope = "global"
    THEN [t EXCEPT !.globalVariables = MapPut(@, name, var)]
    ELSE IF t.scopeStack # <<>>
    THEN [t EXCEPT !.scopeStack[Len(t.scopeStack)] = MapPut(@, name, var)]
    ELSE t

\* A slip: the scope argument chooses the map that is searched, so a set
\* with scope "global" goes past a local of the name.
TrackerAddVariableByScope(t, cb, name, value, scope, line) ==
    LET existingVar == IF scope = "global"
                       THEN IF name \in DOMAIN t.globalVariables
                            THEN [kind |-> "global", frame |-> 0]
                            ELSE NullRef
                       ELSE GetVariableInfo(t, name)
        oldValue    == IF existingVar.kind # "null"
                       THEN Deref(t, existingVar, name).value
                       ELSE EmptyStr
        stored      ==
            IF existingVar.kind # "null"
            THEN WriteThrough(t, existingVar, name,
                              UpdateValue(Deref(t, existingVar, name), value, line))
            ELSE StoreNew(t, name, scope,
                          [NewVariableInfo(name, value, scope)
                               EXCEPT !.lastModifiedLine = line])
    IN  [stored EXCEPT !.events = Notify(@, cb, name, oldValue, value)]

\* MemoryAwareVariableTracker::addVariable
TrackerAddVariable(t, cb, name, value, scope, line) ==
    LET existingVar == GetVariableInfo(t, name)
        oldValue    == IF existingVar.kind # "null"
                       THEN Deref(t, existingVar, name).value
                       ELSE EmptyStr
        stored      ==
            IF existingVar.kind # "null"
            THEN WriteThrough(t, existingVar, name,
                              UpdateValue(Deref(t, existingVar, name), value, line))
            ELSE StoreNew(t, name, scope,
                          [NewVariableInfo(name, value, scope)
                               EXCEPT !.lastModifiedLine = line])
    IN  [stored EXCEPT !.events = Notify(@, cb, name, oldValue, value)]

\* MemoryAwareVariableTracker::pushScope
TrackerPushScope(t) == [t EXCEPT !.scopeStack = Append(@, EmptyMap)]

\* A slip: a pop with no frame left discards the global scope.
TrackerPopScopeDropsGlobals(t) ==
    IF t.scopeStack # <<>>
    THEN [t EXCEPT !.scopeStack = SubSeq(@, 1, Len(@) - 1)]
    ELSE [t EXCEPT !.globalVariables = EmptyMap]

\* MemoryAwareVariableTracker::popScope
TrackerPopScope(t) ==
    IF t.scopeStack # <<>>
    THEN [t EXCEPT !.scopeStack = SubSeq(@, 1, Len(@) - 1)]
    ELSE t

----------------------------------------------------------------------------
(* EnhancedBreakpoint and EnhancedBreakpointManager *)

StrChanged == <<"c", "h", "a", "n", "g", "e", "d">>

\* EnhancedBreakpoint(l, file, cond)
NewBreakpoint(l, file, cond) ==
    [ line            |-> l,
      filename        |-> file,
      condition       |-> cond,
      enabled         |-> TRUE,
      hitCount        |-> 0,
      watchVariable   |-> EmptyStr,
      memoryCondition |-> EmptyStr ]

\* A slip: the breakpoint already on the line keeps its hit count.
WithBreakpointKeepHits(bps, line, filename, condition) ==
    MapPut(bps, line,
           [NewBreakpoint(line, filename, condition) EXCEPT
               !.hitCount = IF line \in DOMAIN bps THEN bps[line].hitCount ELSE 0])

\* EnhancedBreakpointManager::addBreakpoint: the registry it leaves
WithBreakpoint(bps, line, filename, condition) ==
    MapPut(bps, line, NewBreakpoint(line, filename, condition))

\* A slip: the watch is inserted, which leaves a key that is taken as it is.
WithWatchInserted(bps, line, varName, condition) ==
    IF line \in DOMAIN bps THEN bps
    ELSE MapPut(bps, line,
                [NewBreakpoint(line, "", condition) EXCEPT
                    !.watchVariable = varName, !.memoryCondition = condition])

\* EnhancedBreakpointManager::addVariableWatchBreakpoint: the registry it
\* leaves
WithWatch(bps, line, varName, condition) ==
    MapPut(bps, line,
           [NewBreakpoint(line, "", condition) EXCEPT
               !.watchVariable = varName, !.memoryCondition = condition])

\* A slip: the enabled flag is not looked at.
HasBreakpointAnyState(bps, line) == line \in DOMAIN bps

\* EnhancedBreakpointManager::hasBreakpoint: the value it returns
HasBreakpointIn(bps, line) == line \in DOMAIN bps /\ bps[line].enabled

\* A slip: the expected value is taken after the last '=' of the condition.
WatchFiresLastEq(cond, oldValue, newValue) ==
    IF cond # EmptyStr
    THEN \/ (cond = StrChanged /\ oldValue # newValue)
         \/ /\ Find(cond, "=") # 0
            /\ newValue = SubSeq(cond,
                                 (CHOOSE i \in 1..Len(cond) :
                                     /\ cond[i] = "="
                                     /\ \A j \in (i + 1)..Len(cond) : cond[j] # "=") + 1,
                                 Len(cond))
    ELSE oldValue # newValue

\* The condition test in the loop body of checkVariableWatchBreakpoint:
\* whether the body returns true for this breakpoint.
WatchFires(cond, oldValue, newValue) ==
    IF cond # EmptyStr
    THEN \/ (cond = StrChanged /\ oldValue # newValue)
         \/ /\ Find(cond, "=") # 0
            /\ newValue = SubSeq(cond, Find(cond, "=") + 1, Len(cond))
    ELSE oldValue # newValue

\* The keys of a std::map<int, ...> in iteration (ascending) order
RECURSIVE SortedKeys(_)
SortedKeys(S) ==
    IF S = {} THEN <<>>
    ELSE LET m == CHOOSE x \in S : \A y \in S : x <= y
         IN  <<m>> \o SortedKeys(S \ {m})

\* The loop of checkVariableWatchBreakpoint over the remaining keys: the
\* registry it leaves and the value it returns.
RECURSIVE WatchLoop(_, _, _, _, _)
WatchLoop(keys, bps, varName, oldValue, newValue) ==
    IF keys = <<>> THEN [bps |-> bps, ret |-> FALSE]
    ELSE LET k  == Head(keys)
             bp == bps[k]
         IN  IF bp.enabled /\ bp.watchVariable = varName
             THEN LET counted == [bps EXCEPT ![k].hitCount = @ + 1]
                  IN  IF WatchFires(bp.memoryCondition, oldValue, newValue)
                      THEN [bps |-> counted, ret |-> TRUE]
                      ELSE WatchLoop(Tail(keys), counted, varName, oldValue, newValue)
             ELSE WatchLoop(Tail(keys), bps, varName, oldValue, newValue)


----------------------------------------------------------------------------
(* The same record and tracker as built from                               *)
(* src/tcl_integrated_debugger.cpp, whose classifier differs: the          *)
(* dictionary test reads every token and comes before the list test, and   *)
(* the list test looks at braces and blanks, not at the token count.       *)

\* EnhancedVariableInfo::isDictionaryValue
IntegratedIsDictionaryValue(val) ==
    /\ val # EmptyStr
    /\ LET size == Len(Tokens(StripBraces(val)))
       IN  size % 2 = 0 /\ size >= 2 /\ size <= DictSizeMax

\* EnhancedVariableInfo::isListValue
IntegratedIsListValue(val) ==
    /\ val # EmptyStr
    /\ \/ (Head(val) = "{" /\ val[Len(val)] = "}")
       \/ Find(val, " ") # 0
    /\ ~ IntegratedIsDictionaryValue(val)

\* EnhancedVariableInfo::analyzeTypeAndStructure
IntegratedAnalyzeTypeAndStructure(var) ==
    LET reset == [var EXCEPT !.isList = FALSE, !.isDictionary = FALSE,
                             !.isNumeric = FALSE]
    IN  IF var.isEmpty
        THEN [reset EXCEPT !.type = "empty"]
        ELSE IF IsNumericValue(var.value)
        THEN [reset EXCEPT !.isNumeric = TRUE,
                           !.type = IF Find(var.value, ".") # 0
                                    THEN "float" ELSE "integer"]
        ELSE IF IntegratedIsDictionaryValue(var.value)
        THEN [reset EXCEPT !.isDictionary = TRUE, !.type = "dictionary",
                           !.dictElements = ParseDictionary(var.value)]
        ELSE IF IntegratedIsListValue(var.value)
        THEN [reset EXCEPT !.isList = TRUE, !.type = "list",
                           !.listElements = ParseList(var.value)]
        ELSE [reset EXCEPT !.type = "string"]

\* EnhancedVariableInfo(n, v, s)
IntegratedNewVariableInfo(n, v, s) ==
    IntegratedAnalyzeTypeAndStructure(
        [ name             |-> n,
          value            |-> v,
          previousValue    |-> EmptyStr,
          type             |-> "",
          scope            |-> s,
          lastModifiedLine |-> 0,
          accessCount      |-> 0,
          isList           |-> FALSE,
          isDictionary     |-> FALSE,
          isNumeric        |-> FALSE,
          isEmpty          |-> (v = EmptyStr),
          listElements     |-> <<>>,
          dictElements     |-> EmptyMap,
          valueHistory     |-> <<>> ])

\* EnhancedVariableInfo::updateValue
IntegratedUpdateValue(var, newValue, line) ==
    LET pushed == IF var.valueHistory # <<>> \/ var.value # newValue
                  THEN Append(var.valueHistory, var.value)
                  ELSE var.valueHistory
        hist   == IF Len(pushed) > HistoryCap THEN Tail(pushed) ELSE pushed
    IN  IntegratedAnalyzeTypeAndStructure(
            [var EXCEPT !.valueHistory     = hist,
                        !.previousValue    = var.value,
                        !.value            = newValue,
                        !.lastModifiedLine = line,
                        !.accessCount      = @ + 1,
                        !.isEmpty          = (newValue = EmptyStr)])

\* MemoryAwareVariableTracker::addVariable
IntegratedTrackerAddVariable(t, cb, name, value, scope, line) ==
    LET existingVar == GetVariableInfo(t, name)
        oldValue    == IF existingVar.kind # "null"
                       THEN Deref(t, existingVar, name).value ELSE EmptyStr
        stored      ==
            IF existingVar.kind # "null"
            THEN WriteThrough(t, existingVar, name,
                              IntegratedUpdateValue(Deref(t, existingVar, name),
                                                    value, line))
            ELSE StoreNew(t, name, scope,
                          [IntegratedNewVariableInfo(name, value, scope)
                              EXCEPT !.lastModifiedLine = line])
    IN  [stored EXCEPT !.events = Notify(@, cb, name, oldValue, value)]
----------------------------------------------------------------------------
(* ScriptExecutionController.  controller is the record of its fields.     *)

NewController ==
    [ mode          |-> "PAUSED",
      scriptLines   |-> <<>>,
      currentLine   |-> 0,
      isRunning     |-> FALSE,
      callStack     |-> <<>>,
      currentScript |-> "" ]

\* ScriptExecutionController::loadScript, the file opened and read as lines
ControllerLoad(c, filePath, lines) ==
    [c EXCEPT !.scriptLines   = lines,
              !.currentLine   = 1,
              !.isRunning     = FALSE,
              !.callStack     = <<>>,
              !.currentScript = filePath]

\* ScriptExecutionController::pause
ControllerPause(c) == [c EXCEPT !.mode = "PAUSED", !.isRunning = FALSE]

\* ScriptExecutionController::continueExecution
ControllerContinue(c) == [c EXCEPT !.mode = "CONTINUE", !.isRunning = TRUE]

\* ScriptExecutionController::getCurrentLineText
GetCurrentLineText(c) ==
    IF c.currentLine > 0 /\ c.currentLine <= Len(c.scriptLines)
    THEN c.scriptLines[c.currentLine]
    ELSE EmptyStr

\* ScriptExecutionController::advanceLine
AdvanceLine(c) ==
    IF c.currentLine < Len(c.scriptLines)
    THEN [c EXCEPT !.currentLine = @ + 1]
    ELSE c

\* ScriptExecutionController::enterFunction; EnhancedStackFrame's map of
\* locals is never written (addLocalVariable has no caller) and is left out
EnterFunction(c, functionName, line) ==
    [c EXCEPT !.callStack = Append(@, [functionName |-> functionName,
                                       line         |-> line,
                                       filename     |-> c.currentScript])]

\* ScriptExecutionController::exitFunction
ExitFunction(c) ==
    IF c.callStack # <<>>
    THEN [c EXCEPT !.callStack = SubSeq(@, 1, Len(@) - 1)]
    ELSE c

----------------------------------------------------------------------------
(* DebugConsole: the regular expressions of simulateLineExecution *)

\* What '.' does not match
LineTerminators == {"\n", "\r"}

IsIdStart(ch) == ch \in Letters \cup {"_"}

IsIdChar(ch) == ch \in Letters \cup Digits \cup {"_"}

\* Where a greedy [a-zA-Z0-9_]* started at i ends
RECURSIVE SkipIdChars(_, _)
SkipIdChars(s, i) ==
    IF i > Len(s) THEN i
    ELSE IF IsIdChar(s[i]) THEN SkipIdChars(s, i + 1)
    ELSE i

\* Where a greedy .* started at i ends
RECURSIVE SkipDots(_, _)
SkipDots(s, i) ==
    IF i > Len(s) THEN i
    ELSE IF s[i] \notin LineTerminators THEN SkipDots(s, i + 1)
    ELSE i

StrSet  == <<"s", "e", "t">>
StrProc == <<"p", "r", "o", "c">>

\* set\s+([a-zA-Z_][a-zA-Z0-9_]*)\s+(.+) tried at index i.  The identifier
\* and the first \s+ cannot give characters back (what follows them would
\* have to start with a character they hold); the second \s+ gives back
\* white space until the .+ has a character to take.
SetMatchAt(s, i) ==
    LET a  == i + Len(StrSet)
        b  == SkipSpaces(s, a)
        c  == SkipIdChars(s, b)
        d  == SkipSpaces(s, c)
        ps == {p \in (c + 1)..d : p <= Len(s) /\ s[p] \notin LineTerminators}
        p  == CHOOSE q \in ps : \A r \in ps : r <= q
        ok == /\ LitAt(s, i, StrSet)
              /\ b > a /\ b <= Len(s) /\ IsIdStart(s[b])
              /\ d > c
              /\ ps # {}
    IN  IF ok
        THEN [ok |-> TRUE, name |-> SubSeq(s, b, c - 1),
              value |-> SubSeq(s, p, SkipDots(s, p) - 1)]
        ELSE [ok |-> FALSE, name |-> EmptyStr, value |-> EmptyStr]

\* proc\s+([a-zA-Z_][a-zA-Z0-9_]*) tried at index i
ProcMatchAt(s, i) ==
    LET a  == i + Len(StrProc)
        b  == SkipSpaces(s, a)
        c  == SkipIdChars(s, b)
        ok == /\ LitAt(s, i, StrProc)
              /\ b > a /\ b <= Len(s) /\ IsIdStart(s[b])
    IN  IF ok THEN [ok |-> TRUE, name |-> SubSeq(s, b, c - 1)]
        ELSE [ok |-> FALSE, name |-> EmptyStr]

\* std::regex_search: the match at the leftmost index that has one
SetSearch(s) ==
    LET hits == {i \in 1..Len(s) : SetMatchAt(s, i).ok}
    IN  IF hits = {} THEN [ok |-> FALSE, name |-> EmptyStr, value |-> EmptyStr]
        ELSE SetMatchAt(s, CHOOSE i \in hits : \A j \in hits : i <= j)

ProcSearch(s) ==
    LET hits == {i \in 1..Len(s) : ProcMatchAt(s, i).ok}
    IN  IF hits = {} THEN [ok |-> FALSE, name |-> EmptyStr]
        ELSE ProcMatchAt(s, CHOOSE i \in hits : \A j \in hits : i <= j)

\* The clean-up of the matched value: one pair of enclosing quotes or braces
\* is removed (substr(1, length - 2); on a lone quote the count wraps and
\* the result is empty)
CleanValue(v) ==
    IF \/ (Head(v) = "\"" /\ v[Len(v)] = "\"")
       \/ (Head(v) = "{" /\ v[Len(v)] = "}")
    THEN IF Len(v) >= 2 THEN SubSeq(v, 2, Len(v) - 1) ELSE EmptyStr
    ELSE v

----------------------------------------------------------------------------
(* DebugConsole: the simulation methods.  A state of the console is        *)
(* [t |-> the tracker's fields, c |-> the controller's fields]; the        *)
(* breakpoint manager is only read by them.                                *)

\* The set branch of simulateLineExecution: sm is the regex_search result
SimulateSetLine(t, cb, line, lineNum, sm) ==
    IF Contains(line, StrSet \o <<" ">>) /\ sm.ok
    THEN TrackerAddVariable(t, cb, sm.name, CleanValue(sm.value), "global", lineNum)
    ELSE t

\* The proc branch of simulateLineExecution: pm is the regex_search result
SimulateProcLine(t, c, line, lineNum, pm) ==
    IF Contains(line, StrProc \o <<" ">>) /\ pm.ok
    THEN [t |-> TrackerPushScope(t), c |-> EnterFunction(c, pm.name, lineNum)]
    ELSE [t |-> t, c |-> c]

\* DebugConsole::simulateLineExecution
SimulateLineExecution(t, cb, c, line, lineNum) ==
    SimulateProcLine(SimulateSetLine(t, cb, line, lineNum, SetSearch(line)),
                     c, line, lineNum, ProcSearch(line))

\* What simulateStepExecution does after the line ran: the breakpoint
\* check and the advance
AfterLineExecution(ran, bps, currentLine) ==
    [t |-> ran.t,
     c |-> AdvanceLine(IF HasBreakpointIn(bps, currentLine)
                       THEN ControllerPause(ran.c)
                       ELSE ran.c)]

\* DebugConsole::simulateStepExecution
SimulateStepExecution(t, cb, bps, c) ==
    IF GetCurrentLineText(c) # EmptyStr
    THEN AfterLineExecution(
             SimulateLineExecution(t, cb, c, GetCurrentLineText(c), c.currentLine),
             bps, c.currentLine)
    ELSE [t |-> t, c |-> c]

\* A run of addVariable calls, each <<name, value, scope, line>>
RECURSIVE AddAll(_, _, _)
AddAll(t, cb, sets) ==
    IF sets = <<>> THEN t
    ELSE AddAll(TrackerAddVariable(t, cb, sets[1][1], sets[1][2], sets[1][3], sets[1][4]),
                cb, Tail(sets))

\* The calls of DebugConsole::simulateVariableAssignments
DemoAssignments ==
    << <<<<"c", "o", "u", "n", "t", "e", "r">>,
         <<"4", "2">>, "global", 10>>,
       <<<<"n", "a", "m", "e">>,
         <<"H", "e", "l", "l", "o", "W", "o", "r", "l", "d">>, "global", 11>>,
       <<<<"p", "i">>,
         <<"3", ".", "1", "4", "1", "5", "9">>, "global", 12>>,
       <<<<"i", "t", "e", "m", "s">>,
         <<"{", "a", "p", "p", "l", "e", " ", "b", "a", "n", "a", "n", "a", " ", "c", "h", "e", "r", "r", "y", "}">>, "global", 13>>,
       <<<<"c", "o", "n", "f", "i", "g">>,
         <<"{", "h", "o", "s", "t", " ", "l", "o", "c", "a", "l", "h", "o", "s", "t", " ", "p", "o", "r", "t", " ", "8", "0", "8", "0", "}">>, "global", 14>>,
       <<<<"e", "n", "a", "b", "l", "e", "d">>,
         <<"t", "r", "u", "e">>, "global", 15>>,
       <<<<"c", "o", "u", "n", "t", "e", "r">>,
         <<"4", "3">>, "global", 20>>,
       <<<<"c", "o", "u", "n", "t", "e", "r">>,
         <<"4", "4">>, "global", 25>> >>

\* The calls of DebugConsole::simulateFunctionCalls in its outer frame
DemoOuterLocals ==
    << <<<<"w", "i", "d", "t", "h">>, <<"1", "0">>, "local", 31>>,
       <<<<"h", "e", "i", "g", "h", "t">>, <<"2", "0">>, "local", 32>>,
       <<<<"a", "r", "e", "a">>, <<"2", "0", "0">>, "local", 33>> >>

\* and in its nested frame
DemoInnerLocals ==
    << <<<<"i", "n", "p", "u", "t">>, <<"v", "a", "l", "i", "d">>, "local", 36>> >>

StrCalculateArea == <<"c", "a", "l", "c", "u", "l", "a", "t", "e", "A", "r", "e", "a">>
StrValidateInput == <<"v", "a", "l", "i", "d", "a", "t", "e", "I", "n", "p", "u", "t">>

\* DebugConsole::simulateScriptExecution: simulateVariableAssignments, then
\* simulateFunctionCalls
SimulateScriptExecution(t, cb, c) ==
    LET t1 == AddAll(t, cb, DemoAssignments)
        c1 == EnterFunction(c, StrCalculateArea, 30)
        t2 == AddAll(TrackerPushScope(t1), cb, DemoOuterLocals)
        c2 == EnterFunction(c1, StrValidateInput, 35)
        t3 == AddAll(TrackerPushScope(t2), cb, DemoInnerLocals)
        t4 == TrackerPopScope(t3)
        c3 == ExitFunction(c2)
        t5 == TrackerPopScope(t4)
        c4 == ExitFunction(c3)
    IN  [t |-> t5, c |-> c4]

----------------------------------------------------------------------------
(* The operations as steps of the state machine *)

\* The last call made: the operation, the arguments it was given (those it
\* does not take keep their defaults) and what it returned: ret for a bool,
\* found for a VariableInfo*.  message is the outcome popScope,
\* removeBreakpoint or toggleBreakpoint printed for its caller ("" when it
\* printed nothing); locals and globals are the names of the rows that
\* listVariables printed, in the order it printed them.
NoCall ==
    [op |-> "", name |-> EmptyStr, oldValue |-> EmptyStr, value |-> EmptyStr,
     scope |-> "", filename |-> "", condition |-> EmptyStr, line |-> 0,
     ret |-> FALSE, found |-> NullRef, message |-> "", callback |-> "",
     locals |-> <<>>, globals |-> <<>>]

VoidCall(op) == [NoCall EXCEPT !.op = op]

SetTracker(t) ==
    /\ globalVariables' = t.globalVariables
    /\ scopeStack' = t.scopeStack
    /\ events' = t.events

\* A slip: the change callback reaches into the registry and disables every
\* watch on the variable that the change satisfies.
AddVariableOneShotWatch(name, value, scope, line) ==
    LET existingVar == GetVariableInfo(Tracker, name)
        oldValue    == IF existingVar.kind # "null"
                       THEN Deref(Tracker, existingVar, name).value
                       ELSE EmptyStr
    IN  /\ SetTracker(TrackerAddVariable(Tracker, variableChangeCallback,
                                         name, value, scope, line))
        /\ breakpoints' =
              [k \in DOMAIN breakpoints |->
                  IF /\ breakpoints[k].enabled
                     /\ breakpoints[k].watchVariable = name
                     /\ WatchFires(breakpoints[k].memoryCondition, oldValue, value)
                  THEN [breakpoints[k] EXCEPT !.enabled = FALSE]
                  ELSE breakpoints[k]]
        /\ call' = [VoidCall("addVariable") EXCEPT !.name = name, !.value = value,
                                                    !.scope = scope, !.line = line]
        /\ UNCHANGED <<variableChangeCallback, controller>>

\* MemoryAwareVariableTracker::addVariable
AddVariable(name, value, scope, line) ==
    /\ SetTracker(TrackerAddVariable(Tracker, variableChangeCallback,
                                     name, value, scope, line))
    /\ call' = [VoidCall("addVariable") EXCEPT !.name = name, !.value = value,
                                                !.scope = scope, !.line = line]
    /\ UNCHANGED <<variableChangeCallback, breakpoints, controller>>

\* MemoryAwareVariableTracker::addVariable of src/tcl_integrated_debugger.cpp
IntegratedAddVariable(name, value, scope, line) ==
    /\ SetTracker(IntegratedTrackerAddVariable(Tracker, variableChangeCallback,
                                               name, value, scope, line))
    /\ call' = [VoidCall("addVariable") EXCEPT !.name = name, !.value = value,
                                                !.scope = scope, !.line = line]
    /\ UNCHANGED <<variableChangeCallback, breakpoints, controller>>

\* MemoryAwareVariableTracker::setVariableChangeCallback
SetVariableChangeCallback(callback) ==
    /\ variableChangeCallback' = callback
    /\ call' = [VoidCall("setVariableChangeCallback") EXCEPT !.callback = callback]
    /\ UNCHANGED <<globalVariables, scopeStack, events, breakpoints, controller>>

\* MemoryAwareVariableTracker::pushScope
PushScope ==
    /\ SetTracker(TrackerPushScope(Tracker))
    /\ call' = VoidCall("pushScope")
    /\ UNCHANGED <<variableChangeCallback, breakpoints, controller>>

\* MemoryAwareVariableTracker::popScope
PopScope ==
    /\ SetTracker(TrackerPopScope(Tracker))
    /\ call' = [VoidCall("popScope") EXCEPT
                    !.message = IF scopeStack # <<>> THEN "Popped scope" ELSE ""]
    /\ UNCHANGED <<variableChangeCallback, breakpoints, controller>>

\* MemoryAwareVariableTracker::showMemoryAnalysis (commands examine and
\* memory): looks the name up and reports "not found" on nullptr; the result
\* of the lookup is what the caller observes.
ShowMemoryAnalysis(name) ==
    /\ call' = [VoidCall("getVariableInfo") EXCEPT
                    !.name = name, !.found = GetVariableInfo(Tracker, name)]
    /\ UNCHANGED <<storeVars, breakpoints, controller>>

\* MemoryAwareVariableTracker::listVariables (command vars): nothing is
\* listed when no map holds a variable; else the rows of the top frame, if
\* it has any, then the rows of the globals.
ListVariables ==
    LET anyVars == \/ globalVariables # EmptyMap
                   \/ \E i \in 1..Len(scopeStack) : scopeStack[i] # EmptyMap
    IN  /\ call' = [VoidCall("listVariables") EXCEPT
                        !.locals  = IF anyVars /\ scopeStack # <<>>
                                    THEN KeysInOrder(DOMAIN scopeStack[Len(scopeStack)])
                                    ELSE <<>>,
                        !.globals = IF anyVars
                                    THEN KeysInOrder(DOMAIN globalVariables)
                                    ELSE <<>>]
        /\ UNCHANGED <<storeVars, breakpoints, controller>>

\* EnhancedBreakpointManager::addBreakpoint
AddBreakpoint(line, filename, condition) ==
    /\ breakpoints' = WithBreakpoint(breakpoints, line, filename, condition)
    /\ call' = [VoidCall("addBreakpoint") EXCEPT !.line = line, !.filename = filename,
                                                  !.condition = condition]
    /\ UNCHANGED <<storeVars, controller>>

\* EnhancedBreakpointManager::addVariableWatchBreakpoint
AddVariableWatchBreakpoint(line, varName, condition) ==
    /\ breakpoints' = WithWatch(breakpoints, line, varName, condition)
    /\ call' = [VoidCall("addVariableWatchBreakpoint") EXCEPT
                    !.line = line, !.name = varName, !.condition = condition]
    /\ UNCHANGED <<storeVars, controller>>

\* EnhancedBreakpointManager::removeBreakpoint (command unbreak <line>); ret
\* tells whether it printed "removed" or "not found"
RemoveBreakpoint(line) ==
    /\ breakpoints' = IF line \in DOMAIN breakpoints
                      THEN [k \in (DOMAIN breakpoints) \ {line} |-> breakpoints[k]]
                      ELSE breakpoints
    /\ call' = [VoidCall("removeBreakpoint") EXCEPT
                    !.line = line, !.ret = (line \in DOMAIN breakpoints),
                    !.message = IF line \in DOMAIN breakpoints
                                THEN "Removed" ELSE "No breakpoint found"]
    /\ UNCHANGED <<storeVars, controller>>

\* EnhancedBreakpointManager::hasBreakpoint
HasBreakpoint(line) ==
    /\ call' = [VoidCall("hasBreakpoint") EXCEPT
                    !.line = line, !.ret = HasBreakpointIn(breakpoints, line)]
    /\ UNCHANGED <<storeVars, breakpoints, controller>>

\* EnhancedBreakpointManager::hitBreakpoint
HitBreakpoint(line) ==
    /\ breakpoints' = IF line \in DOMAIN breakpoints
                      THEN [breakpoints EXCEPT ![line].hitCount = @ + 1]
                      ELSE breakpoints
    /\ call' = [VoidCall("hitBreakpoint") EXCEPT !.line = line]
    /\ UNCHANGED <<storeVars, controller>>

\* EnhancedBreakpointManager::toggleBreakpoint
ToggleBreakpoint(line) ==
    /\ breakpoints' = IF line \in DOMAIN breakpoints
                      THEN [breakpoints EXCEPT ![line].enabled = ~ @]
                      ELSE breakpoints
    /\ call' = [VoidCall("toggleBreakpoint") EXCEPT
                    !.line = line,
                    !.message = IF line \in DOMAIN breakpoints
                                THEN IF breakpoints[line].enabled
                                     THEN "DISABLED" ELSE "ENABLED"
                                ELSE ""]
    /\ UNCHANGED <<storeVars, controller>>

\* EnhancedBreakpointManager::checkVariableWatchBreakpoint
CheckVariableWatchBreakpoint(varName, oldValue, newValue) ==
    LET r == WatchLoop(SortedKeys(DOMAIN breakpoints), breakpoints,
                       varName, oldValue, newValue)
    IN  /\ breakpoints' = r.bps
        /\ call' = [VoidCall("checkVariableWatchBreakpoint") EXCEPT
                        !.name = varName, !.oldValue = oldValue,
                        !.value = newValue, !.ret = r.ret]
        /\ UNCHANGED <<storeVars, controller>>

\* DebugConsole::setBreakpoint (command break <line>, which wants line > 0)
SetBreakpoint(line) ==
    /\ line > 0
    /\ breakpoints' = WithBreakpoint(breakpoints, line, controller.currentScript, EmptyStr)
    /\ call' = [VoidCall("setBreakpoint") EXCEPT !.line = line]
    /\ UNCHANGED <<storeVars, controller>>

\* DebugConsole::setVariableBreakpoint (command breakvar <var>)
SetVariableBreakpoint(varname) ==
    /\ breakpoints' = WithWatch(breakpoints, 0, varname, EmptyStr)
    /\ call' = [VoidCall("setVariableBreakpoint") EXCEPT !.name = varname]
    /\ UNCHANGED <<storeVars, controller>>

\* DebugConsole::loadScript (command load <file>); files is the file system:
\* the lines of each file that can be opened
LoadScript(files, filename) ==
    /\ controller' = IF filename \in DOMAIN files
                     THEN ControllerLoad(controller, filename, files[filename])
                     ELSE controller
    /\ call' = [VoidCall("loadScript") EXCEPT
                    !.filename = filename, !.ret = (filename \in DOMAIN files)]
    /\ UNCHANGED <<storeVars, breakpoints>>

SetConsole(r) ==
    /\ SetTracker(r.t)
    /\ controller' = r.c

\* DebugConsole::runScript (command run)
RunScript ==
    /\ SetConsole(SimulateScriptExecution(Tracker, variableChangeCallback, controller))
    /\ call' = VoidCall("runScript")
    /\ UNCHANGED <<variableChangeCallback, breakpoints>>

\* DebugConsole::stepInto (command step)
StepInto ==
    /\ SetConsole(SimulateStepExecution(Tracker, variableChangeCallback, breakpoints,
                                        [controller EXCEPT !.mode = "STEP_INTO"]))
    /\ call' = VoidCall("stepInto")
    /\ UNCHANGED <<variableChangeCallback, breakpoints>>

\* DebugConsole::stepOver (command next)
StepOver ==
    /\ SetConsole(SimulateStepExecution(Tracker, variableChangeCallback, breakpoints,
                                        [controller EXCEPT !.mode = "STEP_OVER"]))
    /\ call' = VoidCall("stepOver")
    /\ UNCHANGED <<variableChangeCallback, breakpoints>>

\* DebugConsole::continueExecution (command continue)
ContinueExecution ==
    /\ SetConsole(SimulateScriptExecution(Tracker, variableChangeCallback,
                                          ControllerContinue(controller)))
    /\ call' = VoidCall("continueExecution")
    /\ UNCHANGED <<variableChangeCallback, breakpoints>>

\* DebugConsole::pauseExecution (command pause)
PauseExecution ==
    /\ controller' = ControllerPause(controller)
    /\ call' = VoidCall("pauseExecution")
    /\ UNCHANGED <<storeVars, breakpoints>>

----------------------------------------------------------------------------
(* Initial state: a DebugConsole right after construction *)

Init ==
    /\ globalVariables = EmptyMap
    /\ scopeStack = <<>>
    /\ variableChangeCallback = "console"
    /\ events = <<>>
    /\ breakpoints = EmptyMap
    /\ controller = NewController
    /\ call = VoidCall("DebugConsole")

----------------------------------------------------------------------------
(* The variable store driven through its interface *)

MaxSets  == 3
MaxDepth == 2

NameX == <<"x">>
NameY == <<"y">>
StrG == <<"g">>
StrL == <<"l">>

StoreNames  == {NameX, NameY}
StoreValues == {StrG, StrL, EmptyStr}
StoreScopes == {"global", "local"}
StoreLines  == {10}

NextStore ==
    \/ \E n \in StoreNames, v \in StoreValues, s \in StoreScopes, l \in StoreLines :
          Len(events) < MaxSets /\ AddVariable(n, v, s, l)
    \/ Len(scopeStack) < MaxDepth /\ PushScope
    \/ PopScope
    \/ \E n \in StoreNames : ShowMemoryAnalysis(n)

SpecStore == Init /\ [][NextStore]_vars

----------------------------------------------------------------------------
(* One variable updated many times *)

MaxHistSets == 12

HistName   == <<"h">>
HistValues == {StrG, StrL}

NextHistory ==
    \E v \in HistValues :
        Len(events) < MaxHistSets /\ AddVariable(HistName, v, "global", 1)

SpecHistory == Init /\ [][NextHistory]_vars

----------------------------------------------------------------------------
(* The breakpoint registry driven through its interface *)

MaxHits == 2

Str7 == <<"7">>
Str100 == <<"1", "0", "0">>
StrOneEqZero == <<"1", "=", "0">>
StrEq100 == <<"=", "1", "0", "0">>
StrKeyEq == <<"k", "=", "1", "=", "0">>
StrGreater == <<"x", ">", "5">>

BpLines     == {0, 1}
BpNames     == {NameX, NameY}
BpLineConds == {EmptyStr, StrGreater}
BpConds     == {EmptyStr, StrChanged, StrEq100, StrKeyEq, StrGreater}
BpValues    == {Str100, StrOneEqZero, Str7}

HitsBelowCap == \A k \in DOMAIN breakpoints : breakpoints[k].hitCount < MaxHits

NextBreak ==
    \/ \E l \in BpLines, c \in BpLineConds : AddBreakpoint(l, "", c)
    \/ \E l \in BpLines, n \in BpNames, c \in BpConds :
          AddVariableWatchBreakpoint(l, n, c)
    \/ \E n \in BpNames : SetVariableBreakpoint(n)
    \/ \E l \in BpLines : RemoveBreakpoint(l)
    \/ \E l \in BpLines : ToggleBreakpoint(l)
    \/ \E l \in BpLines : HasBreakpoint(l)
    \/ \E l \in BpLines : HitsBelowCap /\ HitBreakpoint(l)
    \/ \E n \in BpNames, o \in BpValues, v \in BpValues :
          HitsBelowCap /\ CheckVariableWatchBreakpoint(n, o, v)

SpecBreak == Init /\ [][NextBreak]_vars

----------------------------------------------------------------------------
(* The console driven by its commands *)

MaxConsoleEvents == 13
MaxStepEvents    == 4

\* The files the load command can open, as their lines
ConsoleFiles ==
    "a.tcl" :> << <<"s", "e", "t", " ", "x", " ", "7">>,
                 <<"p", "r", "o", "c", " ", "f", " ", "{", "}", " ", "{">>,
                 <<"s", "e", "t", " ", "x", " ", "{", "1", "0", "0", "}">>,
                 EmptyStr >>

ConsoleFileNames == {"a.tcl", "missing.tcl"}
ConsoleLines     == {1, 3}

\* A step that stays within the bounds of the model
StepInBounds ==
    /\ Len(events) < MaxStepEvents
    /\ Len(scopeStack) < MaxDepth

\* A run, which makes every call of the demonstration, within the bounds
RunInBounds ==
    Len(events) + Len(DemoAssignments) + Len(DemoOuterLocals) + Len(DemoInnerLocals)
        <= MaxConsoleEvents

NextConsole ==
    \/ \E f \in ConsoleFileNames : LoadScript(ConsoleFiles, f)
    \/ RunInBounds /\ RunScript
    \/ StepInBounds /\ StepInto
    \/ StepInBounds /\ StepOver
    \/ RunInBounds /\ ContinueExecution
    \/ PauseExecution
    \/ \E l \in ConsoleLines : SetBreakpoint(l)
    \/ \E n \in StoreNames : SetVariableBreakpoint(n)
    \/ \E l \in ConsoleLines : RemoveBreakpoint(l)

SpecConsole == Init /\ [][NextConsole]_vars

----------------------------------------------------------------------------
(* One variable set to values of every kind *)

MaxClassifySets == 3

StrBlank     == <<" ">>
StrFloat     == <<"1", ".", "5">>
StrPair      == <<"a", " ", "b">>
StrTriple    == <<"a", " ", "b", " ", "c">>
StrNumPair   == <<"1", " ", "2">>
StrBracePair == <<"{", "a", " ", "b", "}">>
StrHuge      == <<"1", "e", "9", "9", "9">>
\* 21 tokens, one more than isDictionaryValue reads
StrManyTokens ==
    <<"a", " ", "a", " ", "a", " ", "a", " ", "a", " ", "a", " ", "a", " ",
      "a", " ", "a", " ", "a", " ", "a", " ", "a", " ", "a", " ", "a", " ",
      "a", " ", "a", " ", "a", " ", "a", " ", "a", " ", "a", " ", "a">>

\* 22 tokens of which the first and the last pair have the same key
StrDupKeyBeyond ==
    <<"k", " ", "1", " ", "a", " ", "a", " ", "a", " ", "a", " ", "a", " ",
      "a", " ", "a", " ", "a", " ", "a", " ", "a", " ", "a", " ", "a", " ",
      "a", " ", "a", " ", "a", " ", "a", " ", "a", " ", "a", " ", "k", " ",
      "2">>

Str7a        == <<"7", "a">>
StrBraceWord == <<"{", "a", "b", "c", "}">>
StrBrace42   == <<"{", "4", "2", "}">>
StrWordBlank == <<"a", "b", "c", " ">>
StrDupKey    == <<"k", " ", "1", " ", "k", " ", "2">>
StrItems ==
    <<"{", "a", "p", "p", "l", "e", " ", "b", "a", "n", "a", "n", "a", " ",
      "c", "h", "e", "r", "r", "y", "}">>
StrConfig ==
    <<"{", "h", "o", "s", "t", " ", "l", "o", "c", "a", "l", "h", "o", "s",
      "t", " ", "p", "o", "r", "t", " ", "8", "0", "8", "0", "}">>

ClassifyValues ==
    {EmptyStr, StrBlank, Str7, StrFloat, StrG, StrPair, StrTriple, StrNumPair,
     StrBracePair, StrHuge, StrManyTokens, StrDupKeyBeyond, Str7a,
     StrBraceWord, StrBrace42, StrWordBlank, StrDupKey, StrItems, StrConfig}

NextClassify ==
    \E v \in ClassifyValues :
        Len(events) < MaxClassifySets /\ AddVariable(NameX, v, "global", 1)

SpecClassify == Init /\ [][NextClassify]_vars

\* The same sets made on the tracker of src/tcl_integrated_debugger.cpp
NextIntegrated ==
    \E v \in ClassifyValues :
        Len(events) < MaxClassifySets /\ IntegratedAddVariable(NameX, v, "global", 1)

SpecIntegrated == Init /\ [][NextIntegrated]_vars

----------------------------------------------------------------------------
(* One variable set while listeners subscribe *)

MaxListenerSets == 3

\* The callbacks that can be handed to setVariableChangeCallback: the one
\* the console installs at construction and two of other components
Listeners == {"console", "ui", "log"}

NextListeners ==
    \/ \E l \in Listeners : SetVariableChangeCallback(l)
    \/ \E v \in HistValues :
          Len(events) < MaxListenerSets /\ AddVariable(NameX, v, "global", 1)

SpecListeners == Init /\ [][NextListeners]_vars

----------------------------------------------------------------------------
(* Global variables created in any order, then listed *)

MaxListSets == 3

ListNames == {NameX, NameY, HistName}

NextList ==
    \/ \E n \in ListNames, v \in HistValues :
          Len(events) < MaxListSets /\ AddVariable(n, v, "global", 1)
    \/ ListVariables

SpecList == Init /\ [][NextList]_vars

----------------------------------------------------------------------------
(* The variable store and the breakpoint registry of one console *)

MaxOwnerSets == 2

OwnerValues == {Str100, Str7}
OwnerConds  == {EmptyStr, StrEq100}
OwnerLines  == {1}

NextOwnership ==
    \/ \E v \in OwnerValues, s \in StoreScopes :
          Len(events) < MaxOwnerSets /\ AddVariable(NameX, v, s, 1)
    \/ Len(scopeStack) < MaxDepth /\ PushScope
    \/ PopScope
    \/ \E l \in OwnerLines : AddBreakpoint(l, "", EmptyStr)
    \/ \E l \in OwnerLines, c \in OwnerConds : AddVariableWatchBreakpoint(l, NameX, c)
    \/ \E l \in OwnerLines : RemoveBreakpoint(l)
    \/ \E l \in OwnerLines : ToggleBreakpoint(l)
    \/ \E l \in OwnerLines : HasBreakpoint(l)
    \/ \E o \in OwnerValues, v \in OwnerValues :
          HitsBelowCap /\ CheckVariableWatchBreakpoint(NameX, o, v)

SpecOwnership == Init /\ [][NextOwnership]_vars

----------------------------------------------------------------------------
(* Watches on one variable, registered at descending keys: a watch was
   registered before every watch of a smaller key *)

MaxOrderHits == 2

OrderLines == {0, 1, 2}

OrderHitsBelowCap ==
    \A k \in DOMAIN breakpoints : breakpoints[k].hitCount < MaxOrderHits

NextOrder ==
    \/ \E l \in OrderLines, c \in OwnerConds :
          /\ \A k \in DOMAIN breakpoints : l < k
          /\ AddVariableWatchBreakpoint(l, NameX, c)
    \/ \E o \in OwnerValues, v \in OwnerValues :
          OrderHitsBelowCap /\ CheckVariableWatchBreakpoint(NameX, o, v)

SpecOrder == Init /\ [][NextOrder]_vars

----------------------------------------------------------------------------
(* Scripts stepped through line by line *)

\* Two scripts: the one of the console commands and one with an empty line
\* between two assignments
StepFiles ==
    ("a.tcl" :> ConsoleFiles["a.tcl"]) @@
    ("b.tcl" :> << <<"s", "e", "t", " ", "x", " ", "7">>,
                   EmptyStr,
                   <<"s", "e", "t", " ", "y", " ", "1">> >>)

NextStep ==
    \/ \E f \in DOMAIN StepFiles : LoadScript(StepFiles, f)
    \/ StepInBounds /\ StepInto
    \/ StepInBounds /\ StepOver
    \/ \E l \in ConsoleLines : SetBreakpoint(l)

SpecStep == Init /\ [][NextStep]_vars
----------------------------------------------------------------------------
(* Properties of the variable store *)

\* What the claims call name resolution, stated on the state itself: the top
\* frame's record of the name, else the global one, else none.
TopFrame == scopeStack[Len(scopeStack)]

InTop(n) == scopeStack # <<>> /\ n \in DOMAIN TopFrame

Resolves(n) == InTop(n) \/ n \in DOMAIN globalVariables

ResolvedRecord(n) == IF InTop(n) THEN TopFrame[n] ELSE globalVariables[n]

IsSet(c) == c.op = "addVariable"

\* C1: scope shadowing. A set with scope local inside a pushed scope makes
\* get(x) return the new value and leaves the value of the global x as it
\* was, so that get(x) returns the global's value again after popScope.
C1_ScopeShadowing ==
    [][ \A n \in StoreNames :
          ( /\ IsSet(call') /\ call'.name = n /\ call'.scope # "global"
            /\ scopeStack # <<>>
            /\ n \in DOMAIN globalVariables )
          => /\ Resolves(n)' /\ ResolvedRecord(n)'.value = call'.value
             /\ globalVariables'[n].value = globalVariables[n].value ]_vars

\* C2: every set call delivers exactly one change event (name, old, new)
\* before it returns, old being the value the resolved record held before
\* the call (empty when there was none); the events are logged in call
\* order and no other call delivers one.
C2_OneEventPerSet ==
    [][ events' =
          IF IsSet(call')
          THEN Append(events,
                 [listener |-> "console",
                  name |-> call'.name,
                  old  |-> IF Resolves(call'.name)
                           THEN ResolvedRecord(call'.name).value
                           ELSE EmptyStr,
                  new  |-> call'.value])
          ELSE events ]_vars

\* The last event is the update of a record to another value.
C2_Witness ==
    /\ IsSet(call) /\ Len(events) >= 2
    /\ events[Len(events)].name = call.name
    /\ events[Len(events)].old # EmptyStr
    /\ events[Len(events)].old # events[Len(events)].new

\* C7: a set of an existing variable whose history is empty to the value it
\* already holds leaves the history empty.
C7_IdempotentNoOp ==
    [][ \A n \in StoreNames :
          ( /\ IsSet(call') /\ call'.name = n
            /\ Resolves(n)
            /\ ResolvedRecord(n).valueHistory = <<>>
            /\ ResolvedRecord(n).value = call'.value )
          => ResolvedRecord(n)'.valueHistory = <<>> ]_vars

\* A record was updated to the value it held and has no history.
C7_Witness ==
    /\ IsSet(call) /\ Resolves(call.name)
    /\ ResolvedRecord(call.name).accessCount >= 1
    /\ ResolvedRecord(call.name).previousValue = call.value
    /\ ResolvedRecord(call.name).valueHistory = <<>>

\* C9: set always stores. Right after set(name, value, scope, line), for any
\* scope and any depth of the scope stack, get(name) returns a record whose
\* value is the value passed.
C9_SetAlwaysStores ==
    IsSet(call) =>
        /\ Resolves(call.name)
        /\ ResolvedRecord(call.name).value = call.value

\* C10: get(name) returns the record of the name in the top frame if there
\* is one, else the global record, else nothing; never a record of a frame
\* below the top.
C10_NameResolution ==
    call.op = "getVariableInfo" =>
        LET n == call.name
        IN  call.found = IF InTop(n)
                       THEN [kind |-> "local", frame |-> Len(scopeStack)]
                       ELSE IF n \in DOMAIN globalVariables
                            THEN [kind |-> "global", frame |-> 0]
                            ELSE [kind |-> "null", frame |-> 0]

\* get was called on a name that only a frame below the top holds.
C10_Witness ==
    /\ call.op = "getVariableInfo"
    /\ Len(scopeStack) >= 2
    /\ call.name \in DOMAIN scopeStack[1]
    /\ ~ InTop(call.name)
    /\ call.name \notin DOMAIN globalVariables
    /\ call.found.kind = "null"

----------------------------------------------------------------------------
(* Properties of the history *)

\* The values the variable held before each of its updates, oldest first
\* (the first event is the creation).
PriorValues == [i \in 1..(Len(events) - 1) |-> events[i + 1].old]

AllUpdatesChanged ==
    \A i \in 2..Len(events) : events[i].old # events[i].new

LastN(s, k) == IF Len(s) <= k THEN s ELSE SubSeq(s, Len(s) - k + 1, Len(s))

\* C6: a history never holds more than 10 entries; after 11 or more updates
\* of one variable, each to a value other than the one it held, it holds
\* exactly the 10 most recent prior values, oldest first.
C6_HistoryBound ==
    /\ \A n \in DOMAIN globalVariables :
          Len(globalVariables[n].valueHistory) <= 10
    /\ (HistName \in DOMAIN globalVariables /\ AllUpdatesChanged) =>
          /\ globalVariables[HistName].valueHistory = LastN(PriorValues, 10)
          /\ Len(events) >= 12 => Len(globalVariables[HistName].valueHistory) = 10

\* The variable was created and then updated 11 times, each time to another
\* value.
C6_Witness ==
    /\ Len(events) >= 12
    /\ AllUpdatesChanged
    /\ Len(globalVariables[HistName].valueHistory) = 10

----------------------------------------------------------------------------
(* Properties of the breakpoint registry *)

EnabledWatchesOn(v) ==
    {k \in DOMAIN breakpoints :
        breakpoints[k].enabled /\ breakpoints[k].watchVariable = v}

HasWatchOn(v) == \E k \in DOMAIN breakpoints : breakpoints[k].watchVariable = v

\* What the claims say of a condition and a change event: "changed" and the
\* empty condition fire iff old # new; a condition holding '=' fires iff
\* new is what follows its first '='.  Other conditions are left open.
ClaimCovers(cond) ==
    cond = EmptyStr \/ cond = StrChanged \/ \E i \in 1..Len(cond) : cond[i] = "="

ClaimFires(cond, old, new) ==
    IF cond = EmptyStr \/ cond = StrChanged THEN old # new
    ELSE \E i \in 1..Len(cond) :
            /\ cond[i] = "="
            /\ \A j \in 1..(i - 1) : cond[j] # "="
            /\ new = [j \in 1..(Len(cond) - i) |-> cond[i + j]]

IsCheck(c) == c.op = "checkVariableWatchBreakpoint"

\* C3: every change event of a set is forwarded to the watch evaluation: a
\* set that changes a variable with an enabled watch whose condition the
\* event satisfies leaves the execution paused.
C3_SetRequestsPause ==
    [][ ( \E i \in (Len(events) + 1)..Len(events') :
            \E k \in DOMAIN breakpoints :
               /\ breakpoints[k].enabled
               /\ breakpoints[k].watchVariable = events'[i].name
               /\ ClaimCovers(breakpoints[k].memoryCondition)
               /\ ClaimFires(breakpoints[k].memoryCondition,
                             events'[i].old, events'[i].new) )
        => controller'.mode = "PAUSED" ]_vars

\* C4: with a single enabled watch on the variable of a change event, the
\* evaluation returns true iff old # new for the condition "changed" or the
\* empty one, and iff new is the text after the first '=' for a condition
\* holding '=' ("=100" fires iff new = "100", whatever old is).
C4_WatchFiring ==
    (IsCheck(call) /\ Cardinality(EnabledWatchesOn(call.name)) = 1) =>
        LET k    == CHOOSE k \in EnabledWatchesOn(call.name) : TRUE
            cond == breakpoints[k].memoryCondition
        IN  ClaimCovers(cond) =>
                (call.ret = ClaimFires(cond, call.oldValue, call.value))

\* The condition "k=1=0" fired for the new value "1=0".
C4_Witness ==
    /\ IsCheck(call) /\ Cardinality(EnabledWatchesOn(call.name)) = 1
    /\ \E k \in EnabledWatchesOn(call.name) :
          breakpoints[k].memoryCondition = StrKeyEq
    /\ call.value = StrOneEqZero
    /\ call.ret = TRUE

\* C5: a line check on a line that has an enabled line breakpoint returns
\* true and increments that breakpoint's hitCount by one.
C5_LineCheckCountsHit ==
    [][ ( /\ call'.op = "hasBreakpoint"
          /\ call'.line \in DOMAIN breakpoints
          /\ breakpoints[call'.line].enabled
          /\ breakpoints[call'.line].watchVariable = EmptyStr )
        => /\ call'.ret = TRUE
           /\ breakpoints'[call'.line].hitCount =
                 breakpoints[call'.line].hitCount + 1 ]_vars

\* C8: watches are keyed by variable name: setWatch(b) leaves the watch that
\* an earlier setWatch(a), a # b, put in the registry.
C8_WatchesCoexist ==
    [][ call'.op = "setVariableBreakpoint" =>
          \A w \in BpNames : HasWatchOn(w) => HasWatchOn(w)' ]_vars

----------------------------------------------------------------------------
(* Properties of a record's bookkeeping *)

\* C11: a record's accessCount is the number of set calls made on it, the
\* creating one included: the set that creates the record leaves it at 1 and
\* every later set on it adds one.
C11_AccessCountCountsSets ==
    [][ \A n \in StoreNames :
          (IsSet(call') /\ call'.name = n /\ Resolves(n)')
          => ResolvedRecord(n)'.accessCount =
                IF Resolves(n) THEN ResolvedRecord(n).accessCount + 1 ELSE 1 ]_vars

----------------------------------------------------------------------------
(* Properties of the classification *)

\* Every record the tracker holds
AllRecords ==
    {globalVariables[n] : n \in DOMAIN globalVariables}
    \cup UNION {{scopeStack[i][n] : n \in DOMAIN scopeStack[i]} :
                   i \in 1..Len(scopeStack)}

\* The type the classification gives a value: the one a record just
\* constructed with the value has.
TypeOf(v) == NewVariableInfo(EmptyStr, v, "global").type

\* C12: in every reachable state the type of every record is the
\* classification of the value it holds now, never the one of a value it
\* held before, whatever the sets that led there (a change to or from the
\* empty string included).
C12_TypeNeverStale ==
    \A r \in AllRecords : r.type = TypeOf(r.value)

\* A record that held a list was set to the empty string, and one that held
\* the empty string was set to a number.
C12_Witness ==
    /\ IsSet(call) /\ Len(events) >= 3
    /\ events[2].old = StrTriple /\ events[2].new = EmptyStr
    /\ events[3].old = EmptyStr /\ events[3].new = StrFloat
    /\ globalVariables[NameX].type = "float"

\* The number of whitespace tokens of a value without its enclosing braces
TokenCount(v) == Len(Tokens(StripBraces(v)))

\* C13: dictionary precedence. A value of an even number of tokens, at least
\* 2 and at most 20, is classified dictionary (never list); a value whose
\* token count is odd or above 20 is never classified dictionary.
C13_DictionaryPrecedence ==
    \A r \in AllRecords :
        LET n == TokenCount(r.value)
        IN  /\ (n % 2 = 0 /\ n >= 2 /\ n <= DictSizeMax) => r.type = "dictionary"
            /\ (n % 2 = 1 \/ n > DictSizeMax) => r.type # "dictionary"

TypeTags == {"integer", "float", "string", "list", "dictionary", "empty"}

\* C14: totality. The classification gives every value one of the six tags
\* integer, float, string, list, dictionary, empty, also where the number
\* conversion fails, and gives the tag empty to the empty string and to no
\* other value.
C14_Totality ==
    \A r \in AllRecords :
        /\ r.type \in TypeTags
        /\ (r.type = "empty") <=> (r.value = EmptyStr)

\* The variable held a value of every tag but empty's: a blank, which has no
\* token, and a number out of the range of double were classified string.
C14_Witness ==
    /\ Len(events) >= 3
    /\ events[1].new = StrBlank /\ events[2].old = StrBlank
    /\ events[2].new = StrHuge /\ events[3].old = StrHuge
    /\ events[3].new = EmptyStr
    /\ globalVariables[NameX].type = "empty"
    /\ globalVariables[NameX].valueHistory = <<StrBlank, StrHuge>>

----------------------------------------------------------------------------
(* Properties of hit counting and of the line check *)

\* C15: when several enabled watches are bound to the variable of a change
\* event, the evaluation increments the hitCount of every one of them, also
\* of those that come after a watch whose predicate is satisfied.
C15_AllWatchesCounted ==
    [][ ( IsCheck(call') /\ Cardinality(EnabledWatchesOn(call'.name)) >= 2 )
        => \A k \in EnabledWatchesOn(call'.name) :
              breakpoints'[k].hitCount = breakpoints[k].hitCount + 1 ]_vars

\* C16: an evaluation increments the hitCount of a watch only if the watch
\* is enabled, bound to the variable of the event and its predicate is
\* satisfied; an event that does not satisfy the predicate leaves the
\* hitCount as it was.
C16_CountOnlyWhenSatisfied ==
    [][ IsCheck(call')
        => \A k \in DOMAIN breakpoints :
              breakpoints'[k].hitCount # breakpoints[k].hitCount
              => /\ breakpoints[k].enabled
                 /\ breakpoints[k].watchVariable = call'.name
                 /\ WatchFires(breakpoints[k].memoryCondition,
                               call'.oldValue, call'.value) ]_vars

\* A breakpoint that was put on a line for the line itself, not for a
\* variable
IsLineBreakpoint(bp) == bp.watchVariable = EmptyStr

\* C17: a line check returns true iff the line has an enabled line
\* breakpoint; a watch stored in the registry never makes it return true.
C17_LineCheckOnlyLineBreakpoints ==
    call.op = "hasBreakpoint"
    => call.ret = ( /\ call.line \in DOMAIN breakpoints
                    /\ breakpoints[call.line].enabled
                    /\ IsLineBreakpoint(breakpoints[call.line]) )

----------------------------------------------------------------------------
(* Properties of disabling, removing and replacing *)

RegistryOps ==
    {"addBreakpoint", "addVariableWatchBreakpoint", "setBreakpoint",
     "setVariableBreakpoint", "removeBreakpoint"}

\* C18: a disabled breakpoint is retained but inert. Toggling flips the
\* enabled flag only, so the entry stays with its condition and hitCount and
\* a second toggle enables it again; a line check on its line returns false;
\* an evaluation of a change event leaves it as it was and returns true only
\* for an enabled watch; and no call but an add or a remove takes it from
\* the registry.
C18_DisabledRetainedInert ==
    [][ /\ ( call'.op = "toggleBreakpoint" /\ call'.line \in DOMAIN breakpoints )
           => breakpoints' = [breakpoints EXCEPT ![call'.line].enabled = ~ @]
        /\ ( /\ call'.op = "hasBreakpoint"
             /\ call'.line \in DOMAIN breakpoints
             /\ ~ breakpoints[call'.line].enabled )
           => call'.ret = FALSE
        /\ IsCheck(call')
           => /\ \A k \in DOMAIN breakpoints :
                    ~ breakpoints[k].enabled => breakpoints'[k] = breakpoints[k]
              /\ call'.ret => EnabledWatchesOn(call'.name) # {}
        /\ call'.op \notin RegistryOps
           => \A k \in DOMAIN breakpoints :
                 ~ breakpoints[k].enabled => k \in DOMAIN breakpoints' ]_vars

\* A watch with a condition that was hit, then disabled, is enabled again by
\* a toggle and still has its condition and its hit.
C18_Witness ==
    /\ call.op = "toggleBreakpoint"
    /\ call.line \in DOMAIN breakpoints
    /\ breakpoints[call.line].enabled
    /\ breakpoints[call.line].hitCount > 0
    /\ breakpoints[call.line].watchVariable = NameX
    /\ breakpoints[call.line].memoryCondition = StrEq100

\* C19: removeBreakpoint and toggleBreakpoint on a line without a breakpoint
\* report that none was found and leave the registry as it was;
\* removeBreakpoint on a line with one removes that entry and leaves every
\* other entry as it was.
C19_NotFoundReported ==
    [][ /\ ( /\ call'.op \in {"removeBreakpoint", "toggleBreakpoint"}
             /\ call'.line \notin DOMAIN breakpoints )
           => /\ breakpoints' = breakpoints
              /\ call'.message = "No breakpoint found"
        /\ ( call'.op = "removeBreakpoint" /\ call'.line \in DOMAIN breakpoints )
           => /\ DOMAIN breakpoints' = (DOMAIN breakpoints) \ {call'.line}
              /\ \A k \in DOMAIN breakpoints' : breakpoints'[k] = breakpoints[k] ]_vars

\* C20: addBreakpoint on a line that has a breakpoint replaces it: the line
\* then has one breakpoint, with the new condition and hitCount 0, and the
\* breakpoints of the other lines are as they were.
C20_AddReplaces ==
    [][ ( call'.op = "addBreakpoint" /\ call'.line \in DOMAIN breakpoints )
        => /\ DOMAIN breakpoints' = DOMAIN breakpoints
           /\ breakpoints'[call'.line].condition = call'.condition
           /\ breakpoints'[call'.line].hitCount = 0
           /\ IsLineBreakpoint(breakpoints'[call'.line])
           /\ \A k \in (DOMAIN breakpoints) \ {call'.line} :
                 breakpoints'[k] = breakpoints[k] ]_vars

\* A breakpoint with a new condition was added, none of its own hits on it,
\* while the breakpoint of the other line keeps the hits it had.
C20_Witness ==
    /\ call.op = "addBreakpoint"
    /\ call.condition = StrGreater
    /\ breakpoints[call.line].condition = StrGreater
    /\ breakpoints[call.line].hitCount = 0
    /\ \E k \in (DOMAIN breakpoints) \ {call.line} : breakpoints[k].hitCount > 0

----------------------------------------------------------------------------
(* Properties of the scope stack and of the listeners *)

\* C21: popScope on an empty scope stack is a no-op that raises no error:
\* the stack stays empty and the globals and the events are as they were,
\* so that after more exits than enters a set still stores and get still
\* finds.
C21_PopEmptyIsNoOp ==
    [][ ( call'.op = "popScope" /\ scopeStack = <<>> )
        => /\ scopeStack' = <<>>
           /\ globalVariables' = globalVariables
           /\ events' = events ]_vars

\* popScope was called with no frame on the stack while the globals held a
\* variable.
C21_Witness ==
    /\ call.op = "popScope" /\ call.message = ""
    /\ scopeStack = <<>>
    /\ globalVariables # EmptyMap

\* C22: any number of listeners can be subscribed and each of them receives
\* every change event: the listener the console subscribed at construction
\* receives the event of every set, also of those made after another
\* listener was subscribed.
C22_EveryListenerReceives ==
    [][ IsSet(call')
        => \E i \in (Len(events) + 1)..Len(events') :
              /\ events'[i].listener = "console"
              /\ events'[i].name = call'.name
              /\ events'[i].new = call'.value ]_vars

----------------------------------------------------------------------------
(* Properties of the console's execution commands *)

\* The lines of the loaded script from the current one on that have an
\* enabled line breakpoint
BreakLinesAhead ==
    {l \in DOMAIN breakpoints :
        /\ l >= controller.currentLine /\ l >= 1
        /\ l <= Len(controller.scriptLines)
        /\ breakpoints[l].enabled
        /\ IsLineBreakpoint(breakpoints[l])}

\* C23: continue executes until a breakpoint: with an enabled line
\* breakpoint on a line still to be executed, it leaves the debugger paused
\* at the first such line (the line counter on it or just past it), not
\* running past it.
C23_ContinueStopsAtBreakpoint ==
    [][ ( call'.op = "continueExecution" /\ BreakLinesAhead # {} )
        => LET first == CHOOSE l \in BreakLinesAhead :
                            \A m \in BreakLinesAhead : l <= m
           IN  /\ controller'.mode = "PAUSED"
               /\ controller'.currentLine \in {first, first + 1} ]_vars

----------------------------------------------------------------------------
(* Properties of the listing *)

\* The names of a sequence of events in the order of their first event
RECURSIVE FirstOccurrences(_, _)
FirstOccurrences(evs, seen) ==
    IF evs = <<>> THEN <<>>
    ELSE IF Head(evs).name \in seen THEN FirstOccurrences(Tail(evs), seen)
    ELSE <<Head(evs).name>> \o FirstOccurrences(Tail(evs), seen \cup {Head(evs).name})

\* C24: the listing shows the variables of a map in the order they were
\* inserted: with global sets only, the globals are listed in the order of
\* the first set of each name, whatever the names.
C24_ListInInsertionOrder ==
    call.op = "listVariables" => call.globals = FirstOccurrences(events, {})

----------------------------------------------------------------------------
(* Properties of what the history records *)

\* C25: once the history of a record is not empty, every later set appends
\* the value held before that set, also when the new value is the current
\* one; a set that changes the value always appends the previous value (the
\* oldest entry leaving when there are more than 10).
C25_HistoryAlwaysRecords ==
    [][ ( IsSet(call') /\ HistName \in DOMAIN globalVariables )
        => LET before == globalVariables[HistName]
               after  == globalVariables'[HistName]
           IN  ( before.valueHistory # <<>> \/ before.value # call'.value )
               => /\ after.valueHistory # <<>>
                  /\ after.valueHistory[Len(after.valueHistory)] = before.value
                  /\ after.valueHistory =
                        LastN(Append(before.valueHistory, before.value), 10) ]_vars

\* A set to the value the variable held was recorded in a history that was
\* not empty.
C25_Witness ==
    /\ IsSet(call) /\ Len(events) >= 3
    /\ events[Len(events)].old = events[Len(events)].new
    /\ Len(globalVariables[HistName].valueHistory) >= 2
    /\ globalVariables[HistName].valueHistory[Len(globalVariables[HistName].valueHistory)]
          = call.value

----------------------------------------------------------------------------
(* Properties of the classification of each kind of value *)

AllDigits(s) == \A i \in 1..Len(s) : s[i] \in Digits

\* The whole string is a decimal number: digits with an optional sign and an
\* optional point
IsDecimalNumber(v) ==
    LET b == IF v # EmptyStr /\ Head(v) \in {"+", "-"} THEN Tail(v) ELSE v
        d == Find(b, ".")
    IN  IF d = 0 THEN b # EmptyStr /\ AllDigits(b)
        ELSE /\ AllDigits(SubSeq(b, 1, d - 1))
             /\ AllDigits(SubSeq(b, d + 1, Len(b)))
             /\ Len(b) > 1

\* C26: a non-empty value is classified integer or float exactly when the
\* whole string is a decimal number, integer without a '.' and float with
\* one; a value of several tokens or with characters after the number is
\* not numeric because it starts with a number.
C26_NumericIsWholeString ==
    \A r \in AllRecords :
        r.value # EmptyStr
        => /\ (r.type = "integer")
                 <=> (IsDecimalNumber(r.value) /\ Find(r.value, ".") = 0)
           /\ (r.type = "float")
                 <=> (IsDecimalNumber(r.value) /\ Find(r.value, ".") # 0)

\* What the claims call qualifying as a dictionary: an even number of
\* tokens, at least 2 and at most the cap
QualifiesAsDictionary(v) ==
    TokenCount(v) % 2 = 0 /\ TokenCount(v) >= 2 /\ TokenCount(v) <= DictSizeMax

\* C27: a value that is not a number, has two or more tokens (one enclosing
\* brace pair stripped) and does not qualify as a dictionary is classified
\* list, and its list elements are all its tokens in order.
C27_ListOfAllTokens ==
    \A r \in AllRecords :
        ( /\ ~ IsDecimalNumber(r.value)
          /\ TokenCount(r.value) >= 2
          /\ ~ QualifiesAsDictionary(r.value) )
        => /\ r.type = "list"
           /\ r.listElements = Tokens(StripBraces(r.value))

\* The pairs of a token sequence as a map, a key that occurs again keeping
\* the value of its last occurrence
PairView(toks) ==
    LET pairs == 1..(Len(toks) \div 2)
    IN  [k \in {toks[2 * i - 1] : i \in pairs} |->
            toks[2 * (CHOOSE i \in pairs :
                         /\ toks[2 * i - 1] = k
                         /\ \A j \in pairs : toks[2 * j - 1] = k => j <= i)]]

\* The tokens the classifier counted: at most the cap
CountedTokens(v) ==
    SubSeq(Tokens(StripBraces(v)), 1, Min(TokenCount(v), DictTokenCap))

\* C29: the dictionary elements of a value classified dictionary map, for
\* every pair of the tokens the classifier counted, the first token of the
\* pair to the second, a key that occurs again keeping the value of its
\* last occurrence.
C29_DictionaryView ==
    \A r \in AllRecords :
        r.type = "dictionary" => r.dictElements = PairView(CountedTokens(r.value))

\* C30: a record whose type is integer, float, string or empty has no list
\* elements and no dictionary elements: none remain from a list or a
\* dictionary the variable held before.
C30_ScalarHasNoView ==
    \A r \in AllRecords :
        r.type \in {"integer", "float", "string", "empty"}
        => r.listElements = <<>> /\ r.dictElements = EmptyMap

\* C28: a non-empty value that is not classified a number and has fewer
\* than two tokens (one enclosing brace pair stripped) is classified
\* string, also when it is wrapped in braces ("{abc}", "{42}") or holds a
\* blank but one token only; it is never classified list.
C28_FewTokensIsString ==
    \A r \in AllRecords :
        ( /\ r.value # EmptyStr
          /\ r.type \notin {"integer", "float"}
          /\ TokenCount(r.value) < 2 )
        => r.type = "string"

----------------------------------------------------------------------------
(* Properties of the store and the registry together *)

StoreOps == {"addVariable", "pushScope", "popScope"}

RegistryCalls ==
    {"addBreakpoint", "addVariableWatchBreakpoint", "removeBreakpoint",
     "toggleBreakpoint", "hasBreakpoint", "checkVariableWatchBreakpoint"}

\* A breakpoint but for its hit count
Settings(bp) == [bp EXCEPT !.hitCount = 0]

\* C31: the variable store and the breakpoint registry do not touch each
\* other's state. A set, pushScope or popScope never adds, removes, enables,
\* disables or re-conditions a breakpoint, and an add, remove, toggle, line
\* check or watch evaluation never changes a variable record or the scope
\* stack.
C31_SeparateOwnership ==
    [][ /\ call'.op \in StoreOps
           => /\ DOMAIN breakpoints' = DOMAIN breakpoints
              /\ \A k \in DOMAIN breakpoints :
                    Settings(breakpoints'[k]) = Settings(breakpoints[k])
        /\ call'.op \in RegistryCalls
           => /\ globalVariables' = globalVariables
              /\ scopeStack' = scopeStack ]_vars

\* A set has just changed a variable that an enabled watch for any change
\* is bound to, and the watch is still enabled.
C31_Witness ==
    /\ IsSet(call) /\ Resolves(call.name)
    /\ ResolvedRecord(call.name).previousValue # EmptyStr
    /\ ResolvedRecord(call.name).previousValue # call.value
    /\ \E k \in DOMAIN breakpoints :
          /\ breakpoints[k].enabled
          /\ breakpoints[k].watchVariable = call.name
          /\ breakpoints[k].memoryCondition = EmptyStr

\* The watch on the variable that was registered first, in a registry whose
\* watches were registered at descending keys
FirstRegistered(v) ==
    CHOOSE k \in EnabledWatchesOn(v) : \A j \in EnabledWatchesOn(v) : j <= k

\* C32: watches bound to the same variable are evaluated in the order in
\* which they were registered. An evaluation that hit-counts any of them
\* hit-counts the one registered first, and when the predicate of that one is
\* satisfied the evaluation returns true.
C32_RegistrationOrder ==
    [][ ( IsCheck(call') /\ EnabledWatchesOn(NameX) # {} /\ call'.name = NameX )
        => LET first == FirstRegistered(NameX)
           IN  /\ ( \E k \in EnabledWatchesOn(NameX) :
                       breakpoints'[k].hitCount # breakpoints[k].hitCount )
                  => breakpoints'[first].hitCount = breakpoints[first].hitCount + 1
               /\ WatchFires(breakpoints[first].memoryCondition,
                             call'.oldValue, call'.value)
                  => call'.ret ]_vars

----------------------------------------------------------------------------
(* Properties of the console commands *)

\* C33: loading a new script clears any existing breakpoints. After a
\* successful load command the breakpoint registry is empty.
C33_LoadClearsBreakpoints ==
    (call.op = "loadScript" /\ call.ret) => breakpoints = EmptyMap

\* C34: in every state reachable through the console commands the depth of
\* the controller's call stack equals the depth of the tracker's scope
\* stack, so that the frame pushed for a procedure and its scope go together.
C34_StacksInStep ==
    Len(controller.callStack) = Len(scopeStack)

IsStep(c) == c.op \in {"stepInto", "stepOver"}

\* C35: once a non-empty script of n lines is loaded, 1 <= currentLine <= n
\* under every sequence of step and next commands, and each of them moves
\* the current line on by exactly one, except at line n, where it stays.
C35_StepAdvancesByOne ==
    [][ ( IsStep(call') /\ controller.scriptLines # <<>> )
        => /\ 1 <= controller'.currentLine
           /\ controller'.currentLine <= Len(controller'.scriptLines)
           /\ controller'.currentLine =
                 IF controller.currentLine < Len(controller.scriptLines)
                 THEN controller.currentLine + 1
                 ELSE controller.currentLine ]_vars

----------------------------------------------------------------------------
(* Properties of the registry's keys and of the conditions it knows *)

\* C36: line and watch breakpoints share one key space. Adding a watch at a
\* key that holds a line breakpoint leaves that key with the watch alone,
\* and adding a line breakpoint at a key that holds a watch leaves it with
\* the line breakpoint alone; the set of keys is the same in both cases.
C36_OneKeySpace ==
    [][ /\ ( /\ call'.op = "addVariableWatchBreakpoint"
             /\ call'.line \in DOMAIN breakpoints
             /\ IsLineBreakpoint(breakpoints[call'.line]) )
           => /\ DOMAIN breakpoints' = DOMAIN breakpoints
              /\ breakpoints'[call'.line].watchVariable = call'.name
              /\ breakpoints'[call'.line].memoryCondition = call'.condition
              /\ ~ IsLineBreakpoint(breakpoints'[call'.line])
        /\ ( /\ call'.op = "addBreakpoint"
             /\ call'.line \in DOMAIN breakpoints
             /\ ~ IsLineBreakpoint(breakpoints[call'.line]) )
           => /\ DOMAIN breakpoints' = DOMAIN breakpoints
              /\ IsLineBreakpoint(breakpoints'[call'.line])
              /\ breakpoints'[call'.line].memoryCondition = EmptyStr ]_vars

\* A watch with a condition was just stored at a key, with no hit on it,
\* while the other key holds a line breakpoint that was hit.
C36_Witness ==
    /\ call.op = "addVariableWatchBreakpoint"
    /\ breakpoints[call.line].watchVariable = call.name
    /\ breakpoints[call.line].memoryCondition = StrEq100
    /\ breakpoints[call.line].hitCount = 0
    /\ \E k \in (DOMAIN breakpoints) \ {call.line} :
          IsLineBreakpoint(breakpoints[k]) /\ breakpoints[k].hitCount > 0

\* C37: an enabled watch whose non-empty condition is neither "changed" nor
\* holds '=' never fires: an evaluation for its variable returns true only
\* if another enabled watch on the variable is satisfied. Each evaluation
\* for its variable still increments its hitCount.
C37_UnknownConditionNeverFires ==
    [][ IsCheck(call')
        => \A k \in DOMAIN breakpoints :
              ( /\ breakpoints[k].enabled
                /\ breakpoints[k].watchVariable = call'.name
                /\ ~ ClaimCovers(breakpoints[k].memoryCondition) )
              => /\ breakpoints'[k].hitCount = breakpoints[k].hitCount + 1
                 /\ call'.ret
                    => \E j \in (DOMAIN breakpoints) \ {k} :
                          /\ breakpoints[j].enabled
                          /\ breakpoints[j].watchVariable = call'.name
                          /\ ClaimCovers(breakpoints[j].memoryCondition)
                          /\ ClaimFires(breakpoints[j].memoryCondition,
                                        call'.oldValue, call'.value) ]_vars

----------------------------------------------------------------------------
(* Properties of a set by the scope it names *)

\* The number of records of the store, over the global map and the frames
RECURSIVE FrameRecords(_)
FrameRecords(stack) ==
    IF stack = <<>> THEN 0
    ELSE Cardinality(DOMAIN Head(stack)) + FrameRecords(Tail(stack))

RecordCount == Cardinality(DOMAIN globalVariables) + FrameRecords(scopeStack)

\* C38: a set with a scope other than global of a name that is undefined,
\* made while the scope stack is empty, stores no record: the name stays
\* undefined and the global map is as it was. The change event (name, "",
\* value) is delivered all the same.
C38_LocalWithoutFrameIsDropped ==
    [][ \A n \in StoreNames :
          ( /\ IsSet(call') /\ call'.name = n /\ call'.scope # "global"
            /\ scopeStack = <<>>
            /\ ~ Resolves(n) )
          => /\ ~ Resolves(n)'
             /\ globalVariables' = globalVariables
             /\ scopeStack' = <<>>
             /\ events' = Append(events, [listener |-> "console", name |-> n,
                                          old |-> EmptyStr, new |-> call'.value]) ]_vars

\* A set with scope local has just delivered its event for a name that no
\* record holds, with no frame on the stack.
C38_Witness ==
    /\ IsSet(call) /\ call.scope = "local" /\ call.value # EmptyStr
    /\ scopeStack = <<>>
    /\ ~ Resolves(call.name)
    /\ events # <<>>
    /\ events[Len(events)].name = call.name
    /\ events[Len(events)].old = EmptyStr
    /\ events[Len(events)].new = call.value

\* C39: a set of a name that resolves updates the resolved record and
\* ignores the scope argument. With a local of the name in the top frame the
\* local takes the value and the global map is as it was, also when the
\* scope given is global; the number of records and the scope field of
\* the record are as they were.
C39_SetIgnoresScopeWhenResolved ==
    [][ \A n \in StoreNames :
          ( IsSet(call') /\ call'.name = n /\ Resolves(n) )
          => /\ Resolves(n)'
             /\ ResolvedRecord(n)'.value = call'.value
             /\ ResolvedRecord(n)'.scope = ResolvedRecord(n).scope
             /\ RecordCount' = RecordCount
             /\ InTop(n) => /\ InTop(n)'
                            /\ globalVariables' = globalVariables ]_vars

\* A set with scope global has just changed the local of the top frame,
\* while the global of the same name holds another value.
C39_Witness ==
    /\ IsSet(call) /\ call.scope = "global"
    /\ InTop(call.name)
    /\ TopFrame[call.name].value = call.value
    /\ TopFrame[call.name].previousValue # EmptyStr
    /\ TopFrame[call.name].previousValue # call.value
    /\ call.name \in DOMAIN globalVariables
    /\ globalVariables[call.name].value # call.value

----------------------------------------------------------------------------
(* The classifiers of the two builds *)

\* The type the classification of src/tcl_integrated_debugger.cpp gives a
\* value
IntegratedTypeOf(v) == IntegratedNewVariableInfo(EmptyStr, v, "global").type

\* C40: the classifier of tcl_debugger.cpp and the classifier of
\* tcl_integrated_debugger.cpp give every value the same type tag.
C40_ClassifiersAgree ==
    \A r \in AllRecords : TypeOf(r.value) = IntegratedTypeOf(r.value)

=============================================================================
